---- MODULE Spec2Model ----
(***************************************************************************)
(* Lifecycle reconciliation and structural mapping of two resources of     *)
(* terraform-provider-aws:                                                 *)
(*   - aws_networkfirewall_tls_inspection_configuration                    *)
(*       internal/service/networkfirewall/tls_inspection_configuration.go  *)
(*   - aws_servicecatalog_service_action                                   *)
(*       internal/service/servicecatalog/service_action.go                 *)
(*                                                                         *)
(* One reconciliation invocation runs at a time.  The remote service and   *)
(* the status prober are the environment: every remote answer is chosen    *)
(* nondeterministically among the answers the API can give.  Time is a     *)
(* discrete clock that advances by one per poll probe.                     *)
(***************************************************************************)
EXTENDS Integers, Sequences, FiniteSets, TLC

\* ------------------------------------------------------------------------
\* Bounds of the model
\* ------------------------------------------------------------------------
CreateTimeout == 23     \* create poll deadline, in probe intervals
UpdateTimeout == 4      \* update poll deadline, in probe intervals
DeleteTimeout == 3      \* delete poll deadline, in probe intervals
MaxObjects    == 2      \* create calls the remote service accepts
MaxToken      == 3      \* highest update token the remote service issues
SACreateTimeout == 2    \* service action: create timeout, in attempt intervals
SAUpdateTimeout == 2    \* service action: update timeout, in attempt intervals
SADeleteTimeout == 3    \* service action: delete timeout, in attempt / probe intervals
MaxUniqueId   == 3      \* ids id.UniqueId() hands out

\* ------------------------------------------------------------------------
\* Program constants
\* ------------------------------------------------------------------------
statusChangePending   == "Pending"
ResourceStatusActive  == "ACTIVE"
ResourceStatusDeleting == "DELETING"
NotFoundChecks        == 20
ContinuousTargetOccurence == 2
DefaultContinuousTargetOccurence == 1

Null == "null"

\* Status strings the remote service can put on a described object.
Statuses == {ResourceStatusActive, statusChangePending, ResourceStatusDeleting}

\* Identifiers: the ARN and the resource id of the n-th created object.
NoId     == [kind |-> "none", n |-> 0]
ArnOf(n) == [kind |-> "arn", n |-> n]
IdOf(n)  == [kind |-> "id", n |-> n]

\* Declared values of the three tracked fields (description, the nested
\* tls_inspection_configuration block, encryption_configuration).
Configs ==
  { [description |-> Null, tls |-> Null, enc |-> Null],
    [description |-> "d1", tls |-> Null, enc |-> Null],
    [description |-> Null, tls |-> "t1", enc |-> Null],
    [description |-> Null, tls |-> Null, enc |-> "e1"] }

\* resourceTLSInspectionConfigurationData, the fields the handlers touch.
NoState ==
  [present |-> FALSE, id |-> NoId, arn |-> NoId, name |-> Null,
   description |-> Null, tls |-> Null, enc |-> Null,
   status |-> Null, updateToken |-> 0, cfg |-> Null,
   idempotencyToken |-> 0]   \* IdempotencyToken of a service action create input (0: none)

VARIABLES
  state,     \* recorded state of the TLS inspection configuration
  remote,    \* the remote service: objects created, current update token, stored fields
  pc,        \* position of the running invocation ("idle" when none runs)
  intent,    \* intent of the running (or last) invocation
  plan,      \* the handler's working copy (plan / state struct)
  poll,      \* StateChangeConf loop counters and the poll clock
  outcome,   \* how the last invocation ended
  ghost,     \* history of the running (or last) invocation
  res,       \* resource type this run manages: "tls" or "sa"
  saState,   \* recorded state of the service action
  saRemote,  \* the remote service catalog: actions created, stored fields
  uniqueId,  \* ids handed out by id.UniqueId() so far
  mpc,       \* structural mapper: position ("idle" while a lifecycle runs)
  mTree,     \* structural mapper: the declared tree given to expand
  mPayload,  \* structural mapper: the payload expand returned, or given to flatten
  mOut,      \* structural mapper: the tree flatten returned
  inv,       \* concurrent invocations: each handler's own locals, by resource name
  alone,     \* history: each invocation as it would stand had it run alone
  attrTypes  \* the package-level attr type tables

vars == <<state, remote, pc, intent, plan, poll, outcome, ghost, res, saState, saRemote,
          uniqueId, mpc, mTree, mPayload, mOut, inv, alone, attrTypes>>

mapVars == <<mpc, mTree, mPayload, mOut>>

concVars == <<inv, alone, attrTypes>>

lifeVars == <<state, remote, pc, intent, plan, poll, outcome, ghost, res, saState, saRemote,
              uniqueId>>

saVars == <<saState, saRemote>>

tlsVars == <<state, remote>>

\* notfoundTick, targetOccurence: counters of WaitForStateContext; elapsed: the
\* clock of the running wait or retry; resultErr: the last error RetryContext
\* pulled out of its function ("none" while no attempt has answered).
NoPoll == [notfoundTick |-> 0, targetOccurence |-> 0, elapsed |-> 0, resultErr |-> "none"]

NoGhost ==
  [probes |-> 0,          \* poll probes issued by this invocation
   firstTargetAt |-> 0,   \* index of the first probe that reported the target (0: none)
   broken |-> FALSE,      \* a non-target probe followed the first target probe
   consec |-> 0,          \* target probes in a row ending at the latest probe (capped at 2)
   sincePending |-> 0,    \* target probes since the latest pending-status probe (capped at 2)
   updateCalls |-> 0,     \* mutating update calls sent
   createdArn |-> NoId,   \* ARN the create call of this invocation returned
   sentToken |-> 0,       \* update token carried by the update call
   heldToken |-> 0,       \* update token the remote service held when the call arrived
   readStatus |-> Null,   \* status seen by the read issued right after create
   unchanged |-> FALSE,   \* an update whose declared configuration equals recorded state
   sentFields |-> {},     \* fields the service-action update input carries besides the id
   callAnswer |-> Null,   \* answer of the latest attempt of the mutating call
   attempts |-> 0,        \* attempts of the mutating call inside the retry loop
   finals |-> 0,          \* attempts of the mutating call made after the retry loop timed out
   diag |-> "none",       \* mapping diagnostic raised while the input was built
   probeErrors |-> 0,     \* poll probes that returned an error
   goneRun |-> 0,         \* gone probes since the latest probe that found the object
   foundOther |-> FALSE,  \* a probe found the object in a status that is not the target
   unlisted |-> FALSE,    \* the latest probe found a status neither pending nor target
   waitTimeout |-> "none", \* timeout (by intent) handed to the service action wait that ran
   exhausted |-> FALSE,   \* the retry loop ended because its timeout had passed
   retried |-> {},        \* answers of the mutating call that the retry loop re-attempted
   sentTokens |-> {},     \* idempotency tokens carried by the create attempts
   objects |-> 0,         \* objects the remote service created for this invocation
   deduped |-> FALSE,     \* the remote service answered a create attempt with an earlier object
   calls |-> 0]           \* remote calls of any kind issued by this invocation

\* ------------------------------------------------------------------------
\* retry.StateChangeConf as configured by the three wait functions
\* ------------------------------------------------------------------------
\* Variant: the create wait left at the default of one target occurrence.
WaitCreatedConf_Once ==
  [Pending |-> {}, Target |-> {ResourceStatusActive},
   Timeout |-> CreateTimeout, NotFoundChecks |-> NotFoundChecks,
   ContinuousTargetOccurence |-> DefaultContinuousTargetOccurence]

\* Variant: the create wait listing a pending status, as the update wait does.
WaitCreatedConf_PendingListed ==
  [Pending |-> {statusChangePending}, Target |-> {ResourceStatusActive},
   Timeout |-> CreateTimeout, NotFoundChecks |-> NotFoundChecks,
   ContinuousTargetOccurence |-> ContinuousTargetOccurence]

\* Variant: the create wait giving up one not-found probe early.
WaitCreatedConf_GivesUpEarly ==
  [Pending |-> {}, Target |-> {ResourceStatusActive},
   Timeout |-> CreateTimeout, NotFoundChecks |-> NotFoundChecks - 1,
   ContinuousTargetOccurence |-> ContinuousTargetOccurence]

\* waitTLSInspectionConfigurationCreated: stateConf (lines 569-576).
WaitCreatedConf ==
  [Pending |-> {}, Target |-> {ResourceStatusActive},
   Timeout |-> CreateTimeout, NotFoundChecks |-> NotFoundChecks,
   ContinuousTargetOccurence |-> ContinuousTargetOccurence]

\* Variant: the update wait listing no pending status, as the create wait does.
WaitUpdatedConf_NoPending ==
  [Pending |-> {}, Target |-> {ResourceStatusActive},
   Timeout |-> UpdateTimeout, NotFoundChecks |-> NotFoundChecks,
   ContinuousTargetOccurence |-> ContinuousTargetOccurence]

\* Variant: the update wait left at the default of one target occurrence.
WaitUpdatedConf_Once ==
  [Pending |-> {statusChangePending}, Target |-> {ResourceStatusActive},
   Timeout |-> UpdateTimeout, NotFoundChecks |-> NotFoundChecks,
   ContinuousTargetOccurence |-> DefaultContinuousTargetOccurence]

WaitUpdatedConf ==
  [Pending |-> {statusChangePending}, Target |-> {ResourceStatusActive},
   Timeout |-> UpdateTimeout, NotFoundChecks |-> NotFoundChecks,
   ContinuousTargetOccurence |-> ContinuousTargetOccurence]

\* Variant: the delete wait listing the deleting status alone as pending.
WaitDeletedConf_DeletingOnly ==
  [Pending |-> {ResourceStatusDeleting}, Target |-> {},
   Timeout |-> DeleteTimeout, NotFoundChecks |-> NotFoundChecks,
   ContinuousTargetOccurence |-> DefaultContinuousTargetOccurence]

\* waitTLSInspectionConfigurationDeleted: stateConf (lines 605-610).
WaitDeletedConf ==
  [Pending |-> {ResourceStatusDeleting, ResourceStatusActive}, Target |-> {},
   Timeout |-> DeleteTimeout, NotFoundChecks |-> NotFoundChecks,
   ContinuousTargetOccurence |-> DefaultContinuousTargetOccurence]

\* What one probe (statusTLSInspectionConfiguration) can return:
\* a status of a found object, "gone" (nil, "", nil) or "error".
ProbeOutcomes == Statuses \cup {"gone", "error"}

\* Variant: a probe that returned an error is tried again.
RefreshStep_RetryError(conf, p, o) ==
  LET tick == [p EXCEPT !.elapsed = @ + 1] IN
  IF o = "error" THEN [p |-> tick, res |-> "continue"]
  ELSE IF o = "gone" /\ conf.Target = {} THEN
    LET q == [tick EXCEPT !.targetOccurence = @ + 1] IN
    [p |-> q,
     res |-> IF q.targetOccurence = conf.ContinuousTargetOccurence
             THEN "done" ELSE "continue"]
  ELSE IF o = "gone" THEN
    LET q == [tick EXCEPT !.notfoundTick = @ + 1] IN
    [p |-> q,
     res |-> IF q.notfoundTick > conf.NotFoundChecks THEN "notfound" ELSE "continue"]
  ELSE IF o \in conf.Target THEN
    LET q == [tick EXCEPT !.notfoundTick = 0, !.targetOccurence = @ + 1] IN
    [p |-> q,
     res |-> IF q.targetOccurence = conf.ContinuousTargetOccurence
             THEN "done" ELSE "continue"]
  ELSE IF o \in conf.Pending THEN
    [p |-> [tick EXCEPT !.notfoundTick = 0, !.targetOccurence = 0], res |-> "continue"]
  ELSE
    [p |-> [tick EXCEPT !.notfoundTick = 0],
     res |-> IF conf.Pending # {} THEN "unexpected" ELSE "continue"]

\* One iteration of the refresh loop of WaitForStateContext on probe result o.
\* Returns the new counters and what the loop does next:
\*   "continue" | "done" | "notfound" | "unexpected" | "error"
RefreshStep(conf, p, o) ==
  LET tick == [p EXCEPT !.elapsed = @ + 1] IN
  IF o = "error" THEN [p |-> tick, res |-> "error"]
  ELSE IF o = "gone" /\ conf.Target = {} THEN
    LET q == [tick EXCEPT !.targetOccurence = @ + 1] IN
    [p |-> q,
     res |-> IF q.targetOccurence = conf.ContinuousTargetOccurence
             THEN "done" ELSE "continue"]
  ELSE IF o = "gone" THEN
    LET q == [tick EXCEPT !.notfoundTick = @ + 1] IN
    [p |-> q,
     res |-> IF q.notfoundTick > conf.NotFoundChecks THEN "notfound" ELSE "continue"]
  ELSE IF o \in conf.Target THEN
    LET q == [tick EXCEPT !.notfoundTick = 0, !.targetOccurence = @ + 1] IN
    [p |-> q,
     res |-> IF q.targetOccurence = conf.ContinuousTargetOccurence
             THEN "done" ELSE "continue"]
  ELSE IF o \in conf.Pending THEN
    [p |-> [tick EXCEPT !.notfoundTick = 0, !.targetOccurence = 0], res |-> "continue"]
  ELSE
    [p |-> [tick EXCEPT !.notfoundTick = 0],
     res |-> IF conf.Pending # {} THEN "unexpected" ELSE "continue"]

\* Variant: a deadline test that lets one more probe through.
Expired_Late(conf, p) == p.elapsed > conf.Timeout

\* The poll deadline: WaitForStateContext stops probing once conf.Timeout has passed.
Expired(conf, p) == p.elapsed >= conf.Timeout

\* History bookkeeping of one probe (not part of the program).
IsTarget(conf, o) == IF conf.Target = {} THEN o = "gone" ELSE o \in conf.Target

Min2(n) == IF n >= 2 THEN 2 ELSE n

Probed(conf, g, o) ==
  LET t == IsTarget(conf, o) IN
  [g EXCEPT
    !.probes = @ + 1,
    !.calls = @ + 1,
    !.probeErrors = IF o = "error" THEN @ + 1 ELSE @,
    !.goneRun = IF o = "gone" THEN @ + 1 ELSE IF o = "error" THEN @ ELSE 0,
    !.foundOther = @ \/ (o \in Statuses /\ ~t),
    !.unlisted = o \notin {"gone", "error"} /\ ~t /\ o \notin conf.Pending,
    !.firstTargetAt = IF t /\ @ = 0 THEN g.probes + 1 ELSE @,
    !.broken = @ \/ (~t /\ g.firstTargetAt # 0),
    !.consec = IF t THEN Min2(@ + 1) ELSE 0,
    !.sincePending = IF t THEN Min2(@ + 1) ELSE IF o \in conf.Pending THEN 0 ELSE @]

\* Recorded state of a service action: its id and its declared fields.
NoSAState == [present |-> FALSE, id |-> NoId, cfg |-> Null]

\* Names of the two resources reconciled side by side.
Invocations == {"cfg1", "cfg2"}

\* The package-level attr type tables (lines 1220-1269), by variable name.
AttrTypeTables ==
  {"certificatesAttrTypes", "encryptionConfigurationAttrTypes",
   "tlsInspectionConfigurationAttrTypes", "serverCertificateConfigurationAttrTypes",
   "checkCertificateRevocationStatusAttrTypes", "scopeAttrTypes",
   "sourceDestinationAttrTypes", "portRangeAttrTypes", "serverCertificatesAttrTypes"}

\* One handler invocation: its intent, its position, its local plan and
\* poll counters, its outcome, the state it records (resp.State) and the
\* attr type tables its flatten built the state with.
NoInvocation ==
  [intent |-> "none", pc |-> "idle", plan |-> NoState, poll |-> NoPoll,
   outcome |-> "none", state |-> NoState, elemTypes |-> {}]

\* No side-by-side invocations run.
ConcIdle ==
  /\ inv = [k \in Invocations |-> NoInvocation]
  /\ alone = [k \in Invocations |-> NoInvocation]
  /\ attrTypes = AttrTypeTables

LifeInit ==
  /\ state = NoState
  /\ remote = [created |-> 0, token |-> 0, description |-> Null, tls |-> Null, enc |-> Null]
  /\ pc = "idle"
  /\ intent = "none"
  /\ plan = NoState
  /\ poll = NoPoll
  /\ outcome = "none"
  /\ ghost = NoGhost
  /\ res \in {"tls", "sa"}
  /\ saState = NoSAState
  /\ saRemote = [created |-> 0, cfg |-> Null, lastToken |-> 0]
  /\ uniqueId = 0

Init ==
  /\ LifeInit
  /\ ConcIdle
  /\ mpc = "idle"
  /\ mTree = [null |-> TRUE, elems |-> <<>>]
  /\ mPayload = [nil |-> TRUE]
  /\ mOut = [null |-> TRUE, elems |-> <<>>]

\* Variant: the outcome is reported and the handler carries on where it was.
Finish_NoReturn(o) ==
  /\ pc' = pc
  /\ outcome' = o

\* The handler returns: the invocation is over with outcome o.
Finish(o) ==
  /\ pc' = "idle"
  /\ outcome' = o

\* ------------------------------------------------------------------------
\* resourceTLSInspectionConfiguration.Create
\* ------------------------------------------------------------------------
\* Mapping diagnostics the conversion of a declared configuration can raise:
\* "top" is an error of ElementsAs on the tls_inspection_configuration or
\* encryption_configuration list (lines 288, 298, 459, 469), appended to the
\* response; "nested" is one raised inside expandTLSInspectionConfiguration
\* and the functions it calls, which append it to a local diags that is
\* never returned (lines 1009, 1018, 1028, 1041, 1089, 1096).
Diagnostics(cfg) ==
  {"none"}
  \cup (IF cfg.tls # Null \/ cfg.enc # Null THEN {"top"} ELSE {})
  \cup (IF cfg.tls # Null THEN {"nested"} ELSE {})

\* Variant: every mapping diagnostic reaches the response and aborts.
DiagnosticAborts_Any(d) == d # "none"

\* resp.Diagnostics.HasError() after each ElementsAs (lines 289, 299, 460, 470).
DiagnosticAborts(d) == d = "top"

\* The create call (lines 276-325).  The remote service answers with an
\* error, with an empty output, or creates the object and returns its ARN
\* and first update token.
TLSCreateCall ==
  /\ pc = "idle"
  /\ UNCHANGED <<mapVars, concVars>>
  /\ res = "tls"
  /\ UNCHANGED <<res, saState, saRemote, uniqueId>>
  /\ ~state.present
  /\ intent' = "create"
  /\ poll' = NoPoll
  /\ \E cfg \in Configs, r \in {"ok", "error", "empty"} : \E d \in Diagnostics(cfg) :
       LET p0 == [NoState EXCEPT !.name = "cfg1", !.description = cfg.description,
                                 !.tls = cfg.tls, !.enc = cfg.enc] IN
       IF DiagnosticAborts(d) THEN
         /\ r = "ok"
         /\ plan' = p0
         /\ ghost' = [NoGhost EXCEPT !.diag = d]
         /\ Finish("failed_mapping")
         /\ UNCHANGED <<state, remote>>
       ELSE IF r = "ok" THEN
         /\ remote.created < MaxObjects
         /\ remote' = [created |-> remote.created + 1, token |-> 1,
                       description |-> cfg.description, tls |-> cfg.tls, enc |-> cfg.enc]
         /\ plan' = [p0 EXCEPT !.arn = ArnOf(remote.created + 1),
                               !.id = ArnOf(remote.created + 1),
                               !.updateToken = 1]
         /\ ghost' = [NoGhost EXCEPT !.calls = 1, !.diag = d,
                                     !.createdArn = ArnOf(remote.created + 1)]
         /\ pc' = "create_read"
         /\ outcome' = "running"
         /\ UNCHANGED state
       ELSE
         /\ plan' = p0
         /\ ghost' = [NoGhost EXCEPT !.calls = 1, !.diag = d]
         /\ Finish("failed_call")
         /\ UNCHANGED <<state, remote>>

\* The read issued right after the create call (lines 327-337).  Its error is
\* never looked at: when the read fails readComputed is nil and line 333
\* dereferences it.
TLSCreateRead ==
  /\ pc = "create_read"
  /\ UNCHANGED <<mapVars, concVars>>
  /\ UNCHANGED <<res, saState, saRemote, uniqueId>>
  /\ \E o \in Statuses \cup {"gone", "error"} :
       /\ ghost' = [ghost EXCEPT !.calls = @ + 1, !.readStatus = o]
       /\ IF o \in Statuses THEN
            /\ plan' = [plan EXCEPT !.status = o]
            /\ pc' = "create_poll"
            /\ UNCHANGED outcome
          ELSE
            /\ Finish("crashed")
            /\ UNCHANGED plan
  /\ UNCHANGED <<state, remote, intent, poll>>

\* waitTLSInspectionConfigurationCreated and the end of Create (lines 339-349).
TLSCreatePoll ==
  /\ pc = "create_poll"
  /\ UNCHANGED <<mapVars, concVars>>
  /\ UNCHANGED <<res, saState, saRemote, uniqueId>>
  /\ IF Expired(WaitCreatedConf, poll) THEN
       /\ Finish("failed_timeout")
       /\ UNCHANGED <<state, poll, ghost>>
     ELSE
       \E o \in ProbeOutcomes :
         LET s == RefreshStep(WaitCreatedConf, poll, o) IN
         /\ poll' = s.p
         /\ ghost' = Probed(WaitCreatedConf, ghost, o)
         /\ CASE s.res = "continue" -> UNCHANGED <<pc, outcome, state>>
              [] s.res = "done" -> Finish("converged") /\ state' = [plan EXCEPT !.present = TRUE]
              [] OTHER -> Finish("failed_" \o s.res) /\ UNCHANGED state
  /\ UNCHANGED <<remote, intent, plan>>

\* ------------------------------------------------------------------------
\* resourceTLSInspectionConfiguration.Update
\* ------------------------------------------------------------------------
\* Variant: an update call sent unconditionally.
UpdateNeeded_Always(pl, st) == TRUE

\* Variant: a change test that looks at the description alone.
UpdateNeeded_DescriptionOnly(pl, st) == pl.description # st.description

\* The change test of Update (lines 443-445): only description, the nested
\* tls_inspection_configuration block and encryption_configuration are compared.
UpdateNeeded(pl, st) ==
  \/ pl.description # st.description
  \/ pl.tls # st.tls
  \/ pl.enc # st.enc

\* The id Update copies from the update output (line 493): the output's
\* TLSInspectionConfigurationId, not its ARN.
UpdateOutputID(n) == IdOf(n)

\* The plan of an update: the declared fields, and the computed attributes
\* carried over from prior state (UseStateForUnknown, lines 83-106).
UpdatePlan(st, cfg) ==
  [st EXCEPT !.description = cfg.description, !.tls = cfg.tls, !.enc = cfg.enc]

\* History: the declared configuration equals the recorded one, field by field.
Unchanged(st, cfg) ==
  cfg = [description |-> st.description, tls |-> st.tls, enc |-> st.enc]

\* The update call (lines 443-499), skipped when no tracked field differs.
\* The remote service rejects a call whose update token is not the one it holds.
TLSUpdateCall ==
  /\ pc = "idle"
  /\ UNCHANGED <<mapVars, concVars>>
  /\ res = "tls"
  /\ UNCHANGED <<res, saState, saRemote, uniqueId>>
  /\ state.present
  /\ intent' = "update"
  /\ poll' = NoPoll
  /\ UNCHANGED state
  /\ \E cfg \in Configs :
       LET p0 == UpdatePlan(state, cfg) IN
       IF UpdateNeeded(p0, state) THEN
         \E r \in {"ok", "error", "empty"}, s \in Statuses, d \in Diagnostics(cfg) :
           IF DiagnosticAborts(d) THEN
             /\ r = "ok" /\ s = ResourceStatusActive
             /\ plan' = p0
             /\ ghost' = [NoGhost EXCEPT !.diag = d, !.unchanged = Unchanged(state, cfg)]
             /\ Finish("failed_mapping")
             /\ UNCHANGED remote
           ELSE
           /\ ghost' = [NoGhost EXCEPT !.calls = 1, !.updateCalls = 1, !.diag = d,
                                       !.unchanged = Unchanged(state, cfg),
                                       !.sentToken = p0.updateToken,
                                       !.heldToken = remote.token]
           /\ IF r = "ok" /\ p0.updateToken = remote.token THEN
                /\ remote.token < MaxToken
                /\ remote' = [remote EXCEPT !.token = @ + 1,
                                !.description = cfg.description,
                                !.tls = cfg.tls, !.enc = cfg.enc]
                /\ plan' = [p0 EXCEPT !.arn = ArnOf(p0.arn.n),
                                      !.id = UpdateOutputID(p0.arn.n),
                                      !.updateToken = remote.token + 1,
                                      !.status = s]
                /\ pc' = "update_poll"
                /\ outcome' = "running"
              ELSE
                /\ s = ResourceStatusActive
                /\ plan' = p0
                /\ Finish("failed_call")
                /\ UNCHANGED remote
       ELSE
         /\ ghost' = [NoGhost EXCEPT !.unchanged = Unchanged(state, cfg)]
         /\ plan' = p0
         /\ pc' = "update_poll"
         /\ outcome' = "running"
         /\ UNCHANGED remote

\* waitTLSInspectionConfigurationUpdated and the end of Update (lines 501-511).
TLSUpdatePoll ==
  /\ pc = "update_poll"
  /\ UNCHANGED <<mapVars, concVars>>
  /\ UNCHANGED <<res, saState, saRemote, uniqueId>>
  /\ IF Expired(WaitUpdatedConf, poll) THEN
       /\ Finish("failed_timeout")
       /\ UNCHANGED <<state, poll, ghost>>
     ELSE
       \E o \in ProbeOutcomes :
         LET s == RefreshStep(WaitUpdatedConf, poll, o) IN
         /\ poll' = s.p
         /\ ghost' = Probed(WaitUpdatedConf, ghost, o)
         /\ CASE s.res = "continue" -> UNCHANGED <<pc, outcome, state>>
              [] s.res = "done" -> Finish("converged") /\ state' = [plan EXCEPT !.present = TRUE]
              [] OTHER -> Finish("failed_" \o s.res) /\ UNCHANGED state
  /\ UNCHANGED <<remote, intent, plan>>

\* ------------------------------------------------------------------------
\* resourceTLSInspectionConfiguration.Read
\* ------------------------------------------------------------------------
\* Answers of DescribeTLSInspectionConfiguration for a lookup key: the remote
\* service knows objects by ARN only, and is eventually consistent.
DescribeOutcomes(key) ==
  IF key.kind = "arn" THEN Statuses \cup {"gone", "error"} ELSE {"gone", "error"}

\* Read (lines 352-431): looks the object up by state.ID.
TLSRead ==
  /\ pc = "idle"
  /\ UNCHANGED <<mapVars, concVars>>
  /\ res = "tls"
  /\ UNCHANGED <<res, saState, saRemote, uniqueId>>
  /\ state.present
  /\ intent' = "read"
  /\ \E o \in DescribeOutcomes(state.id) :
       /\ ghost' = [NoGhost EXCEPT !.calls = 1, !.readStatus = o]
       /\ CASE o = "gone" -> state' = NoState /\ outcome' = "removed"
            [] o = "error" -> UNCHANGED state /\ outcome' = "failed_call"
            [] OTHER ->
                 /\ state' = [state EXCEPT
                       !.arn = ArnOf(state.id.n), !.id = ArnOf(state.id.n),
                       !.name = "cfg1", !.description = remote.description,
                       !.tls = remote.tls, !.enc = remote.enc,
                       !.updateToken = remote.token, !.status = o]
                 /\ outcome' = "converged"
  /\ plan' = state
  /\ poll' = NoPoll
  /\ UNCHANGED <<remote, pc>>

\* ------------------------------------------------------------------------
\* resourceTLSInspectionConfiguration.Delete
\* ------------------------------------------------------------------------
\* Variant: a not-found answer of the delete call reported as a failure.
TLSDeleteCallResult_Strict(r) ==
  CASE r = "ok" -> "poll"
    [] OTHER -> "failed_call"

\* How Delete goes on after its delete call (lines 527-539).
TLSDeleteCallResult(r) ==
  CASE r = "ok" -> "poll"
    [] r = "notfound" -> "converged"
    [] OTHER -> "failed_call"

\* The delete call (lines 523-537).  A handler that returns without an error
\* diagnostic has its resource removed from state by the framework.
TLSDeleteCall ==
  /\ pc = "idle"
  /\ UNCHANGED <<mapVars, concVars>>
  /\ res = "tls"
  /\ UNCHANGED <<res, saState, saRemote, uniqueId>>
  /\ state.present
  /\ intent' = "delete"
  /\ poll' = NoPoll
  /\ plan' = state
  /\ \E r \in {"ok", "notfound", "error"} :
       /\ ghost' = [NoGhost EXCEPT !.calls = 1, !.callAnswer = r]
       /\ CASE TLSDeleteCallResult(r) = "poll" ->
                 pc' = "delete_poll" /\ outcome' = "running" /\ UNCHANGED state
            [] TLSDeleteCallResult(r) = "converged" ->
                 Finish("converged") /\ state' = NoState
            [] OTHER -> Finish("failed_call") /\ UNCHANGED state
  /\ UNCHANGED remote

\* waitTLSInspectionConfigurationDeleted and the end of Delete (lines 539-550).
TLSDeletePoll ==
  /\ pc = "delete_poll"
  /\ UNCHANGED <<mapVars, concVars>>
  /\ UNCHANGED <<res, saState, saRemote, uniqueId>>
  /\ IF Expired(WaitDeletedConf, poll) THEN
       /\ Finish("failed_timeout")
       /\ UNCHANGED <<state, poll, ghost>>
     ELSE
       \E o \in ProbeOutcomes :
         LET s == RefreshStep(WaitDeletedConf, poll, o) IN
         /\ poll' = s.p
         /\ ghost' = Probed(WaitDeletedConf, ghost, o)
         /\ CASE s.res = "continue" -> UNCHANGED <<pc, outcome, state>>
              [] s.res = "done" -> Finish("converged") /\ state' = NoState
              [] OTHER -> Finish("failed_" \o s.res) /\ UNCHANGED state
  /\ UNCHANGED <<remote, intent, plan>>

\* ------------------------------------------------------------------------
\* Service action (service_action.go)
\* ------------------------------------------------------------------------
\* Declared values of the service action's fields (name, description, definition).
SAConfigs == {"c1", "c2"}

SAFields == {"definition", "description", "name"}

\* Fields d.HasChange reports between two declared values.
SAChanged(old, new) == IF old = new THEN {} ELSE {"description"}

SAIdOf(n) == [kind |-> "sa", n |-> n]

\* Answers of the three mutating calls.
SAAnswers(i) ==
  CASE i = "create" -> {"ok", "empty", "profile does not exist", "other"}
    [] i = "update" -> {"ok", "profile does not exist", "other"}
    [] i = "delete" -> {"ok", "notfound", "ResourceInUseException", "other"}

\* Variant: every error of the call taken for a transient one.
SARetryable_AnyError(i, a) == a \notin {"ok", "empty"}

\* The error signature each retry function turns into retry.RetryableError.
SARetryable(i, a) ==
  CASE i = "create" -> a = "profile does not exist"
    [] i = "update" -> a = "profile does not exist"
    [] i = "delete" -> a = "ResourceInUseException"

SATimeout(i) ==
  CASE i = "create" -> SACreateTimeout
    [] i = "update" -> SAUpdateTimeout
    [] i = "delete" -> SADeleteTimeout

\* Variant: the wait after a call bounded by the timeout of the handler's intent.
WaitTimeoutKey_OwnIntent(i) == i

\* The timeout a service action handler of intent i hands to the wait that
\* follows its mutating call: Create and Update wait inside
\* resourceServiceActionRead with d.Timeout(schema.TimeoutRead) (line 154),
\* Delete waits with d.Timeout(schema.TimeoutDelete) (line 268).
WaitTimeoutKey(i) == IF i = "delete" THEN "delete" ELSE "read"

\* tfresource.TimedOut on the error RetryContext returns once its wait has
\* timed out: RetryContext hands back the last error its function returned,
\* and a *retry.TimeoutError only when no attempt ever answered.
TimedOut(p) == p.resultErr = "none"

\* Answers of WaitServiceActionReady as resourceServiceActionRead sees them.
SAReadAnswers == {"ok", "notfound", "error", "empty"}

\* Variant: not-found removes the resource whether or not it is new.
SARead_RemovesNew(st, isNew, ra, rcfg) ==
  CASE ra = "notfound" -> [st |-> NoSAState, out |-> "removed"]
    [] ra = "ok" -> [st |-> [st EXCEPT !.cfg = rcfg], out |-> "converged"]
    [] OTHER -> [st |-> st, out |-> "failed_read"]

\* resourceServiceActionRead (lines 150-182) for answer ra of the wait;
\* isNew is d.IsNewResource().  Yields the recorded state and the outcome.
SARead(st, isNew, ra, rcfg) ==
  CASE ra = "notfound" /\ ~isNew -> [st |-> NoSAState, out |-> "removed"]
    [] ra = "ok" -> [st |-> [st EXCEPT !.cfg = rcfg], out |-> "converged"]
    [] OTHER -> [st |-> st, out |-> "failed_read"]

\* How resourceServiceActionDelete goes on after its delete call (lines 259-266).
SADeleteCallResult(a) ==
  CASE a = "notfound" -> "converged"
    [] a = "ok" -> "poll"
    [] OTHER -> "failed_call"

\* The remote service on a CreateServiceAction call it processes: a call
\* whose idempotency token is the one of the latest created action creates
\* nothing and answers with that action.
SACreated(r, tok, cfg) ==
  IF tok = r.lastToken THEN r
  ELSE [created |-> r.created + 1, cfg |-> cfg, lastToken |-> tok]

\* What each handler does once its mutating phase has ended with answer a
\* (lines 137-147, 226-230, 259-272); ra is the answer of the read that follows.
SAAfterCall(a, ra, g, tok) ==
  CASE intent = "create" /\ a = "ok" ->
         LET rem == SACreated(saRemote, tok, plan.cfg) IN
         /\ rem.created <= MaxObjects
         /\ saRemote' = rem
         /\ LET st == [present |-> TRUE, id |-> SAIdOf(rem.created), cfg |-> plan.cfg]
                r == SARead(st, TRUE, ra, plan.cfg) IN
            /\ saState' = r.st
            /\ Finish(r.out)
         /\ ghost' = [g EXCEPT !.calls = @ + 1, !.createdArn = SAIdOf(rem.created),
                               !.waitTimeout = WaitTimeoutKey(intent), !.readStatus = ra,
                               !.objects = @ + (rem.created - saRemote.created),
                               !.deduped = (tok = saRemote.lastToken)]
         /\ UNCHANGED poll
    [] intent = "update" /\ a = "ok" ->
         /\ saRemote' = [saRemote EXCEPT !.cfg = plan.cfg]
         /\ LET r == SARead(saState, FALSE, ra, plan.cfg) IN
            /\ saState' = r.st
            /\ Finish(r.out)
         /\ ghost' = [g EXCEPT !.calls = @ + 1, !.waitTimeout = WaitTimeoutKey(intent),
                               !.readStatus = ra]
         /\ UNCHANGED poll
    [] intent = "delete" /\ SADeleteCallResult(a) = "poll" ->
         /\ ra = "ok"
         /\ pc' = "sa_delete_poll"
         /\ poll' = NoPoll
         /\ ghost' = [g EXCEPT !.waitTimeout = WaitTimeoutKey(intent)]
         /\ UNCHANGED <<saState, saRemote, outcome>>
    [] intent = "delete" /\ SADeleteCallResult(a) = "converged" ->
         /\ ra = "ok"
         /\ saState' = NoSAState
         /\ Finish("converged")
         /\ ghost' = g
         /\ UNCHANGED <<saRemote, poll>>
    [] OTHER ->
         /\ ra = "ok"
         /\ Finish("failed_call")
         /\ ghost' = g
         /\ UNCHANGED <<saState, saRemote, poll>>

\* resourceServiceActionCreate, up to the retry loop (lines 97-116).
SACreateStart ==
  /\ pc = "idle"
  /\ UNCHANGED <<mapVars, concVars>>
  /\ res = "sa"
  /\ ~saState.present
  /\ intent' = "create"
  /\ uniqueId < MaxUniqueId
  /\ uniqueId' = uniqueId + 1
  /\ \E cfg \in SAConfigs :
       plan' = [NoState EXCEPT !.cfg = cfg, !.idempotencyToken = uniqueId + 1]
  /\ pc' = "sa_retry"
  /\ poll' = NoPoll
  /\ ghost' = NoGhost
  /\ outcome' = "running"
  /\ UNCHANGED <<res, saState, saRemote, state, remote>>

\* resourceServiceActionUpdate, up to the retry loop (lines 184-206): the
\* input carries the id and the fields d.HasChange reports.
SAUpdateStart ==
  /\ pc = "idle"
  /\ UNCHANGED <<mapVars, concVars>>
  /\ res = "sa"
  /\ saState.present
  /\ intent' = "update"
  /\ \E cfg \in SAConfigs :
       /\ plan' = [NoState EXCEPT !.cfg = cfg]
       /\ ghost' = [NoGhost EXCEPT !.unchanged = (cfg = saState.cfg),
                                   !.sentFields = SAChanged(saState.cfg, cfg)]
  /\ pc' = "sa_retry"
  /\ poll' = NoPoll
  /\ outcome' = "running"
  /\ UNCHANGED <<res, saState, saRemote, state, remote, uniqueId>>

\* resourceServiceActionDelete, up to the retry loop (lines 233-239).
SADeleteStart ==
  /\ pc = "idle"
  /\ UNCHANGED <<mapVars, concVars>>
  /\ res = "sa"
  /\ saState.present
  /\ intent' = "delete"
  /\ plan' = [NoState EXCEPT !.cfg = saState.cfg]
  /\ pc' = "sa_retry"
  /\ poll' = NoPoll
  /\ ghost' = NoGhost
  /\ outcome' = "running"
  /\ UNCHANGED <<res, saState, saRemote, state, remote, uniqueId>>

\* Variant: a token generated anew for every attempt.
AttemptToken_Fresh(pl, g) == pl.idempotencyToken + g.attempts + g.finals

\* The idempotency token an attempt of the create call carries: the input is
\* built once (lines 101-106) and handed to every attempt (lines 120, 134).
AttemptToken(pl, g) == pl.idempotencyToken

\* History of one attempt of the mutating call.
Attempted(g, a) ==
  [g EXCEPT !.attempts = @ + 1, !.calls = @ + 1, !.callAnswer = a,
            !.updateCalls = IF intent = "update" THEN @ + 1 ELSE @,
            !.retried = IF g.attempts + g.finals > 0 THEN @ \cup {g.callAnswer} ELSE @,
            !.sentTokens = IF intent = "create" THEN @ \cup {AttemptToken(plan, g)} ELSE @]

\* One round of retry.RetryContext around the mutating call (lines 117-131,
\* 208-220, 241-253).  An attempt answers, or hangs until the timeout has
\* passed; the remote service may have processed a create call whose answer
\* never arrived.  A retryable answer is kept in resultErr and the call is tried
\* again; any other answer ends the loop.  Once the timeout has passed the
\* handler goes on with the final attempt if TimedOut, and with resultErr if not.
SARetryAttempt ==
  /\ pc = "sa_retry"
  /\ UNCHANGED <<mapVars, concVars>>
  /\ UNCHANGED <<res, intent, plan, state, remote, uniqueId>>
  /\ IF Expired([Timeout |-> SATimeout(intent)], poll) THEN
       IF TimedOut(poll) THEN
         /\ pc' = "sa_final"
         /\ ghost' = [ghost EXCEPT !.exhausted = TRUE]
         /\ UNCHANGED <<poll, outcome, saState, saRemote>>
       ELSE
         SAAfterCall(poll.resultErr, "ok", [ghost EXCEPT !.exhausted = TRUE], 0)
     ELSE
       \E a \in SAAnswers(intent) \cup {"hang"}, ra \in SAReadAnswers :
         IF a = "hang" THEN
           /\ ra = "ok"
           /\ poll' = [poll EXCEPT !.elapsed = SATimeout(intent)]
           /\ \E processed \in BOOLEAN :
                IF processed /\ intent = "create" THEN
                  LET rem == SACreated(saRemote, AttemptToken(plan, ghost), plan.cfg) IN
                  /\ rem.created <= MaxObjects
                  /\ saRemote' = rem
                  /\ ghost' = [Attempted(ghost, a) EXCEPT
                                 !.objects = @ + (rem.created - saRemote.created)]
                ELSE
                  /\ ~processed
                  /\ ghost' = Attempted(ghost, a)
                  /\ UNCHANGED saRemote
           /\ UNCHANGED <<pc, outcome, saState>>
         ELSE IF SARetryable(intent, a) THEN
           /\ ra = "ok"
           /\ poll' = [poll EXCEPT !.elapsed = @ + 1, !.resultErr = a]
           /\ ghost' = Attempted(ghost, a)
           /\ UNCHANGED <<pc, outcome, saState, saRemote>>
         ELSE
           SAAfterCall(a, ra, Attempted(ghost, a), AttemptToken(plan, ghost))

\* The attempt made after the retry loop timed out (lines 133-135, 222-224,
\* 255-257); its answer is the answer of the mutating phase.
SAFinalAttempt ==
  /\ pc = "sa_final"
  /\ UNCHANGED <<mapVars, concVars>>
  /\ UNCHANGED <<res, intent, plan, state, remote, uniqueId>>
  /\ \E a \in SAAnswers(intent), ra \in SAReadAnswers :
       SAAfterCall(a, ra, [Attempted(ghost, a) EXCEPT !.attempts = ghost.attempts,
                                                   !.retried = ghost.retried,
                                                   !.finals = @ + 1],
                   AttemptToken(plan, ghost))

\* WaitServiceActionDeleted and the end of Delete (lines 268-272).
SADeletedConf ==
  [Pending |-> {"AVAILABLE"}, Target |-> {},
   Timeout |-> SATimeout(WaitTimeoutKey("delete")), NotFoundChecks |-> NotFoundChecks,
   ContinuousTargetOccurence |-> DefaultContinuousTargetOccurence]

SADeletePoll ==
  /\ pc = "sa_delete_poll"
  /\ UNCHANGED <<mapVars, concVars>>
  /\ UNCHANGED <<res, intent, plan, state, remote, saRemote, uniqueId>>
  /\ IF Expired(SADeletedConf, poll) THEN
       /\ Finish("failed_timeout")
       /\ UNCHANGED <<saState, poll, ghost>>
     ELSE
       \E o \in {"AVAILABLE", "gone", "error"} :
         LET s == RefreshStep(SADeletedConf, poll, o) IN
         /\ poll' = s.p
         /\ ghost' = Probed(SADeletedConf, ghost, o)
         /\ CASE s.res = "continue" -> UNCHANGED <<pc, outcome, saState>>
              [] s.res = "done" -> Finish("converged") /\ saState' = NoSAState
              [] OTHER -> Finish("failed_" \o s.res) /\ UNCHANGED saState

\* resourceServiceActionRead called on its own (refresh of an existing resource).
SAReadOnly ==
  /\ pc = "idle"
  /\ UNCHANGED <<mapVars, concVars>>
  /\ res = "sa"
  /\ saState.present
  /\ intent' = "read"
  /\ \E ra \in SAReadAnswers :
       LET r == SARead(saState, FALSE, ra, saRemote.cfg) IN
       /\ saState' = r.st
       /\ outcome' = r.out
       /\ ghost' = [NoGhost EXCEPT !.calls = 1, !.waitTimeout = WaitTimeoutKey("read"),
                                   !.readStatus = ra]
  /\ poll' = NoPoll
  /\ plan' = [NoState EXCEPT !.cfg = saState.cfg]
  /\ UNCHANGED <<res, pc, saRemote, state, remote, uniqueId>>

\* ------------------------------------------------------------------------
\* Error diagnostics
\* ------------------------------------------------------------------------
\* The declared name, as the identifier an error message can carry.
NameOf(n) == [kind |-> "name", n |-> n]

NoError == [action |-> "none", id |-> NoId]

\* create.ProblemStandardMessage(service, action, resource, id, err) and the
\* sdkdiag.AppendErrorf formats of the service action: the action and the
\* identifier the message names.
ProblemStandardMessage(action, id) == [action |-> action, id |-> id]

\* The error diagnostic a handler returns with outcome o of intent i on
\* resource type r.  pl is the handler's plan, st and sst the recorded state
\* of the TLS inspection configuration and of the service action (d.Id()).
ErrorMessage(r, i, o, pl, st, sst) ==
  LET poll_failed == o \in {"failed_timeout", "failed_error", "failed_notfound",
                            "failed_unexpected"} IN
  CASE r = "tls" /\ i = "create" /\ o = "failed_call" ->
         ProblemStandardMessage("creating", NameOf(pl.name))              \* lines 309, 316
    [] r = "tls" /\ i = "create" /\ poll_failed ->
         ProblemStandardMessage("waiting for creation", NameOf(pl.name))  \* line 343
    [] r = "tls" /\ i = "update" /\ o = "failed_call" ->
         ProblemStandardMessage("updating", pl.id)                        \* lines 479, 486
    [] r = "tls" /\ i = "update" /\ poll_failed ->
         ProblemStandardMessage("waiting for update", pl.id)              \* line 505
    [] r = "tls" /\ i = "delete" /\ o = "failed_call" ->
         ProblemStandardMessage("deleting", st.id)                        \* line 533
    [] r = "tls" /\ i = "delete" /\ poll_failed ->
         ProblemStandardMessage("waiting for deletion", st.id)            \* line 546
    [] r = "sa" /\ i = "create" /\ o = "failed_call" ->
         ProblemStandardMessage("creating", NoId)                         \* line 138
    [] r = "sa" /\ i = "update" /\ o = "failed_call" ->
         ProblemStandardMessage("updating", sst.id)                       \* line 227
    [] r = "sa" /\ i = "delete" /\ o = "failed_call" ->
         ProblemStandardMessage("deleting", sst.id)                       \* line 265
    [] r = "sa" /\ i = "delete" /\ poll_failed ->
         ProblemStandardMessage("waiting for delete", sst.id)             \* line 269
    [] r = "sa" /\ o = "failed_read" ->
         ProblemStandardMessage("describing", sst.id)                     \* line 163
    [] OTHER -> NoError

Next ==
  \/ TLSCreateCall
  \/ TLSCreateRead
  \/ TLSCreatePoll
  \/ TLSUpdateCall
  \/ TLSUpdatePoll
  \/ TLSRead
  \/ TLSDeleteCall
  \/ TLSDeletePoll
  \/ SACreateStart
  \/ SAUpdateStart
  \/ SADeleteStart
  \/ SARetryAttempt
  \/ SAFinalAttempt
  \/ SADeletePoll
  \/ SAReadOnly

Spec == Init /\ [][Next]_vars

\* ========================================================================
\* Structural mapper
\* ========================================================================
MaxLen == 2     \* longest nested list of a declared tree or payload

\* Framework values: a null flag and the value (the zero value when null).
StringNull     == [null |-> TRUE, v |-> ""]
StringValue(x) == [null |-> FALSE, v |-> x]
Int64Null      == [null |-> TRUE, v |-> 0]
Int64Value(x)  == [null |-> FALSE, v |-> x]
ListNull       == [null |-> TRUE, elems |-> <<>>]
ListValue(q)   == [null |-> FALSE, elems |-> q]

\* Payload values: pointers (nil or a value) and slices (nil or elements).
NilPtr       == [nil |-> TRUE]
NilString    == [nil |-> TRUE, v |-> ""]
awsString(x) == [nil |-> FALSE, v |-> x]
NilInt64     == [nil |-> TRUE, v |-> 0]
awsInt64(x)  == [nil |-> FALSE, v |-> x]
NilSlice     == [nil |-> TRUE, elems |-> <<>>]
Slice(q)     == [nil |-> FALSE, elems |-> q]

\* var s []T followed by one append per element: nil when nothing was appended.
Appended(q) == IF Len(q) = 0 THEN NilSlice ELSE Slice(q)

\* List.ElementsAs into a slice: a null list has no elements.
ElementsAs(l) == l.elems

\* Variant: the pointed-to string taken as a value, a nil pointer as "".
StringToFramework_Value(ptr) == StringValue(ptr.v)

\* flex.StringToFramework / flex.Int64ToFramework
StringToFramework(ptr) == IF ptr.nil THEN StringNull ELSE StringValue(ptr.v)
Int64ToFramework(ptr)  == IF ptr.nil THEN Int64Null ELSE Int64Value(ptr.v)

NotNil(q) == SelectSeq(q, LAMBDA e : ~e.nil)

\* ---- expand -------------------------------------------------------------
expandPortRange(tfList) ==
  Appended([i \in 1..Len(tfList) |->
    [nil |-> FALSE,
     FromPort |-> awsInt64(tfList[i].from_port.v),
     ToPort |-> awsInt64(tfList[i].to_port.v)]])

expandSourceDestinations(tfList) ==
  Appended([i \in 1..Len(tfList) |->
    [nil |-> FALSE, AddressDefinition |-> awsString(tfList[i].address_definition.v)]])

expandServerCertificates(tfList) ==
  Appended([i \in 1..Len(tfList) |->
    [nil |-> FALSE, ResourceArn |-> awsString(tfList[i].resource_arn.v)]])

expandProtocols(l) ==
  Slice([i \in 1..Len(ElementsAs(l)) |-> awsInt64(ElementsAs(l)[i].v)])

expandScope(tfObj) ==
  [nil |-> FALSE,
   Protocols |-> IF ~tfObj.protocols.null THEN expandProtocols(tfObj.protocols) ELSE NilSlice,
   DestinationPorts |-> IF ~tfObj.destination_ports.null
                        THEN expandPortRange(ElementsAs(tfObj.destination_ports)) ELSE NilSlice,
   Destinations |-> IF ~tfObj.destinations.null
                    THEN expandSourceDestinations(ElementsAs(tfObj.destinations)) ELSE NilSlice,
   SourcePorts |-> IF ~tfObj.source_ports.null
                   THEN expandPortRange(ElementsAs(tfObj.source_ports)) ELSE NilSlice,
   Sources |-> IF ~tfObj.sources.null
               THEN expandSourceDestinations(ElementsAs(tfObj.sources)) ELSE NilSlice]

expandScopes(tfList) ==
  Appended([i \in 1..Len(tfList) |-> expandScope(tfList[i])])

expandCheckCertificateRevocationStatus(tfList) ==
  IF Len(tfList) = 0 THEN NilPtr
  ELSE [nil |-> FALSE,
        RevokedStatusAction |-> awsString(tfList[1].revoked_status_action.v),
        UnknownStatusAction |-> awsString(tfList[1].unknown_status_action.v)]

\* Variant: no IsNull guards, every nested field allocated before it is filled.
expandServerCertificateConfiguration_SendsEmpty(item) ==
  [nil |-> FALSE,
   CertificateAuthorityArn |-> awsString(item.certificate_authority_arn.v),
   CheckCertificateRevocationStatus |->
     IF Len(ElementsAs(item.check_certificate_revocation_status)) = 0
     THEN [nil |-> FALSE, RevokedStatusAction |-> awsString(""),
           UnknownStatusAction |-> awsString("")]
     ELSE expandCheckCertificateRevocationStatus(
            ElementsAs(item.check_certificate_revocation_status)),
   Scopes |-> Slice([i \in 1..Len(ElementsAs(item.scopes)) |->
                       expandScope(ElementsAs(item.scopes)[i])]),
   ServerCertificates |->
     Slice([i \in 1..Len(ElementsAs(item.server_certificates)) |->
              [nil |-> FALSE,
               ResourceArn |-> awsString(ElementsAs(item.server_certificates)[i].resource_arn.v)]])]

expandServerCertificateConfiguration(item) ==
  [nil |-> FALSE,
   CertificateAuthorityArn |->
     IF ~item.certificate_authority_arn.null
     THEN awsString(item.certificate_authority_arn.v) ELSE NilString,
   CheckCertificateRevocationStatus |->
     IF ~item.check_certificate_revocation_status.null
     THEN expandCheckCertificateRevocationStatus(
            ElementsAs(item.check_certificate_revocation_status))
     ELSE NilPtr,
   Scopes |-> IF ~item.scopes.null THEN expandScopes(ElementsAs(item.scopes)) ELSE NilSlice,
   ServerCertificates |->
     IF ~item.server_certificates.null
     THEN expandServerCertificates(ElementsAs(item.server_certificates)) ELSE NilSlice]

\* Variant: each expanded element put in front of the ones before it.
expandServerCertificateConfigurations_Prepend(tfList) ==
  Appended([i \in 1..Len(tfList) |->
    expandServerCertificateConfiguration(tfList[Len(tfList) + 1 - i])])

expandServerCertificateConfigurations(tfList) ==
  Appended([i \in 1..Len(tfList) |-> expandServerCertificateConfiguration(tfList[i])])

expandTLSInspectionConfiguration(tfList) ==
  IF Len(tfList) = 0 THEN NilPtr
  ELSE [nil |-> FALSE,
        ServerCertificateConfigurations |->
          expandServerCertificateConfigurations(
            ElementsAs(tfList[1].server_certificate_configurations))]

\* The nested definition as Create and Update put it into their input
\* (lines 286-294, 457-465): a null block leaves the field unset.
ExpandDeclared(tree) ==
  IF ~tree.null THEN expandTLSInspectionConfiguration(ElementsAs(tree)) ELSE NilPtr

\* A list whose ElementsAs fails (an element that does not fit the target
\* type): the call returns an error diagnostic and leaves the target as it was.
ListMalformed == [null |-> FALSE, elems |-> <<>>, malformed |-> TRUE]

IsMalformed(l) == "malformed" \in DOMAIN l

\* The diagnostics the expand functions append to their local diags, by the
\* name of the attribute whose ElementsAs failed.
ScopeRaised(tfObj) ==
  {f \in {"protocols", "destination_ports", "destinations", "source_ports", "sources"} :
     IsMalformed(tfObj[f])}

ConfigurationRaised(item) ==
  {f \in {"check_certificate_revocation_status", "scopes", "server_certificates"} :
     IsMalformed(item[f])}
  \cup UNION {ScopeRaised(item.scopes.elems[j]) : j \in 1..Len(item.scopes.elems)}

ExpandRaised(tree) ==
  IF Len(tree.elems) = 0 THEN {}
  ELSE LET l == tree.elems[1].server_certificate_configurations IN
       (IF IsMalformed(l) THEN {"server_certificate_configurations"} ELSE {})
       \cup UNION {ConfigurationRaised(l.elems[i]) : i \in 1..Len(l.elems)}

\* What the caller of expandTLSInspectionConfiguration gets back: the payload
\* alone.  The function has no diagnostics result and its diags is a local.
ExpandReturned(tree) == [payload |-> ExpandDeclared(tree), diags |-> {}]

\* ---- flatten ------------------------------------------------------------
flattenPortRange(ranges) ==
  IF Len(ranges.elems) = 0 THEN ListNull
  ELSE LET r == NotNil(ranges.elems) IN
       ListValue([i \in 1..Len(r) |->
         [from_port |-> Int64ToFramework(r[i].FromPort),
          to_port |-> Int64ToFramework(r[i].ToPort)]])

flattenSourceDestinations(destinations) ==
  IF Len(destinations.elems) = 0 THEN ListNull
  ELSE LET r == NotNil(destinations.elems) IN
       ListValue([i \in 1..Len(r) |->
         [address_definition |-> StringToFramework(r[i].AddressDefinition)]])

flattenProtocols(list) ==
  IF Len(list.elems) = 0 THEN ListNull
  ELSE LET r == NotNil(list.elems) IN
       ListValue([i \in 1..Len(r) |-> Int64Value(r[i].v)])

flattenScopes(scopes) ==
  IF Len(scopes.elems) = 0 THEN ListNull
  ELSE LET r == NotNil(scopes.elems) IN
       ListValue([i \in 1..Len(r) |->
         [destination_ports |-> flattenPortRange(r[i].DestinationPorts),
          destinations |-> flattenSourceDestinations(r[i].Destinations),
          protocols |-> flattenProtocols(r[i].Protocols),
          source_ports |-> flattenPortRange(r[i].SourcePorts),
          sources |-> flattenSourceDestinations(r[i].Sources)]])

\* Variant: the emptiness test made after the nil elements are dropped.
flattenServerCertificates_NullWhenAllNil(serverCertificateList) ==
  LET r == NotNil(serverCertificateList.elems) IN
  IF Len(r) = 0 THEN ListNull
  ELSE ListValue([i \in 1..Len(r) |->
         [resource_arn |-> StringToFramework(r[i].ResourceArn)]])

flattenServerCertificates(serverCertificateList) ==
  IF Len(serverCertificateList.elems) = 0 THEN ListNull
  ELSE LET r == NotNil(serverCertificateList.elems) IN
       ListValue([i \in 1..Len(r) |->
         [resource_arn |-> StringToFramework(r[i].ResourceArn)]])

flattenCheckCertificateRevocationStatus(ptr) ==
  IF ptr.nil THEN ListNull
  ELSE ListValue(<<[revoked_status_action |-> StringToFramework(ptr.RevokedStatusAction),
                    unknown_status_action |-> StringToFramework(ptr.UnknownStatusAction)]>>)

flattenServerCertificateConfigurations(configs) ==
  IF configs.nil THEN ListNull
  ELSE ListValue([i \in 1..Len(configs.elems) |->
         [certificate_authority_arn |->
            StringToFramework(configs.elems[i].CertificateAuthorityArn),
          check_certificate_revocation_status |->
            flattenCheckCertificateRevocationStatus(
              configs.elems[i].CheckCertificateRevocationStatus),
          scopes |-> flattenScopes(configs.elems[i].Scopes),
          server_certificates |->
            flattenServerCertificates(configs.elems[i].ServerCertificates)]])

flattenTLSInspectionConfiguration(ptr) ==
  IF ptr.nil THEN ListNull
  ELSE ListValue(<<[server_certificate_configurations |->
         flattenServerCertificateConfigurations(ptr.ServerCertificateConfigurations)]>>)

flattenTLSEncryptionConfiguration(ptr) ==
  IF ptr.nil THEN ListNull
  ELSE ListValue(<<[key_id |-> StringToFramework(ptr.KeyId),
                    type |-> StringToFramework(ptr.Type)]>>)

\* ---- service action definition -------------------------------------------
\* A key of map[string]*string: absent, present with a nil pointer, or a value.
KeyAbsent == [present |-> FALSE, nil |-> TRUE, v |-> ""]
KeyNil    == [present |-> TRUE, nil |-> TRUE, v |-> ""]
KeyVal(x) == [present |-> TRUE, nil |-> FALSE, v |-> x]

\* A key of the flattened map[string]interface{}: set or missing.
Missing == [set |-> FALSE, v |-> ""]
Set(x)  == [set |-> TRUE, v |-> x]

expandServiceActionDefinition(tfMap) ==
  IF tfMap.nil THEN NilPtr
  ELSE [nil |-> FALSE,
        AssumeRole |-> IF tfMap.assume_role # "" THEN KeyVal(tfMap.assume_role) ELSE KeyAbsent,
        Name |-> IF tfMap.name # "" THEN KeyVal(tfMap.name) ELSE KeyAbsent,
        Parameters |-> IF tfMap.parameters # "" THEN KeyVal(tfMap.parameters) ELSE KeyAbsent,
        Version |-> IF tfMap.version # "" THEN KeyVal(tfMap.version) ELSE KeyAbsent]

FlattenKey(k) == IF k.present /\ ~k.nil THEN Set(k.v) ELSE Missing

flattenServiceActionDefinition(apiObject, definitionType) ==
  IF apiObject.nil THEN NilPtr
  ELSE [nil |-> FALSE,
        assume_role |-> FlattenKey(apiObject.AssumeRole),
        name |-> FlattenKey(apiObject.Name),
        parameters |-> FlattenKey(apiObject.Parameters),
        version |-> FlattenKey(apiObject.Version),
        type |-> IF definitionType # "" THEN Set(definitionType) ELSE Missing]

\* ---- inputs -------------------------------------------------------------
SeqsUpTo(S, n) == UNION {[1..k -> S] : k \in 0..n}

Lists(S) == {ListNull} \cup {ListValue(q) : q \in SeqsUpTo(S, MaxLen)}

Slices(S) == {NilSlice} \cup {Slice(q) : q \in SeqsUpTo(S, MaxLen)}

PortRanges ==
  { [from_port |-> Int64Value(1), to_port |-> Int64Value(2)],
    [from_port |-> Int64Value(443), to_port |-> Int64Value(443)] }

Addresses ==
  { [address_definition |-> StringValue("a")], [address_definition |-> StringValue("b")] }

ProtocolValues == {Int64Value(6), Int64Value(17)}

\* protocols is a required attribute: a valid scope declares it (line 203).
BaseScope ==
  [destination_ports |-> ListNull, destinations |-> ListNull,
   protocols |-> ListValue(<<Int64Value(6)>>),
   source_ports |-> ListNull, sources |-> ListNull]

Scopes ==
  {[BaseScope EXCEPT !.protocols = l] : l \in Lists(ProtocolValues) \ {ListNull}}
  \cup {[BaseScope EXCEPT !.destination_ports = l] : l \in Lists(PortRanges)}
  \cup {[BaseScope EXCEPT !.source_ports = l] : l \in Lists(PortRanges)}
  \cup {[BaseScope EXCEPT !.destinations = l] : l \in Lists(Addresses)}
  \cup {[BaseScope EXCEPT !.sources = l] : l \in Lists(Addresses)}

CoreScopes ==
  { [destination_ports |-> ListValue(<<[from_port |-> Int64Value(1), to_port |-> Int64Value(2)]>>),
     destinations |-> ListValue(<<[address_definition |-> StringValue("a")]>>),
     protocols |-> ListValue(<<Int64Value(6)>>),
     source_ports |-> ListNull, sources |-> ListNull],
    [BaseScope EXCEPT !.protocols = ListValue(<<Int64Value(17)>>)] }

ScopeLists == Lists(CoreScopes) \cup {ListValue(<<sc>>) : sc \in Scopes}

ActionValues == {StringNull, StringValue("PASS")}

CheckLists ==
  {ListNull, ListValue(<<>>)}
  \cup {ListValue(<<[revoked_status_action |-> r, unknown_status_action |-> u]>>) :
          r \in ActionValues, u \in ActionValues}

ServerCerts == {[resource_arn |-> StringValue("a")], [resource_arn |-> StringValue("b")]}

ServerCertLists == Lists(ServerCerts) \cup {ListValue(<<[resource_arn |-> StringNull]>>)}

BaseSCC ==
  [certificate_authority_arn |-> StringNull, check_certificate_revocation_status |-> ListNull,
   scopes |-> ListNull, server_certificates |-> ListNull]

SCCs ==
  {[BaseSCC EXCEPT !.certificate_authority_arn = a] : a \in {StringNull, StringValue("ca")}}
  \cup {[BaseSCC EXCEPT !.check_certificate_revocation_status = l] : l \in CheckLists}
  \cup {[BaseSCC EXCEPT !.scopes = l] : l \in ScopeLists}
  \cup {[BaseSCC EXCEPT !.server_certificates = l] : l \in ServerCertLists}

CoreSCCs ==
  { [BaseSCC EXCEPT !.certificate_authority_arn = StringValue("ca")],
    [BaseSCC EXCEPT !.server_certificates = ListValue(<<[resource_arn |-> StringValue("a")]>>)] }

SCCLists == Lists(CoreSCCs) \cup {ListValue(<<c>>) : c \in SCCs}

\* Declared tls_inspection_configuration blocks.
Trees ==
  {ListNull, ListValue(<<>>)}
  \cup {ListValue(<<[server_certificate_configurations |-> l]>>) : l \in SCCLists}

\* Declared blocks with one nested list that cannot be converted.
BadSCCs ==
  LET c == [BaseSCC EXCEPT !.certificate_authority_arn = StringValue("ca")] IN
  { [c EXCEPT !.check_certificate_revocation_status = ListMalformed],
    [c EXCEPT !.scopes = ListMalformed],
    [c EXCEPT !.server_certificates = ListMalformed],
    [c EXCEPT !.scopes = ListValue(<<[BaseScope EXCEPT !.protocols = ListMalformed]>>)],
    [c EXCEPT !.scopes = ListValue(<<[BaseScope EXCEPT !.destination_ports = ListMalformed]>>)],
    [c EXCEPT !.scopes = ListValue(<<[BaseScope EXCEPT !.sources = ListMalformed]>>)] }

BadTrees ==
  {ListValue(<<[server_certificate_configurations |-> ListMalformed]>>)}
  \cup {ListValue(<<[server_certificate_configurations |-> ListValue(<<c>>)]>>) : c \in BadSCCs}
  \cup {ListValue(<<[server_certificate_configurations |-> ListValue(<<c, d>>)]>>) :
          c \in BadSCCs, d \in CoreSCCs}

\* Payloads as the remote service may return them: nil and empty slices, nil
\* elements, nil scalars.
PPortRanges ==
  { NilPtr,
    [nil |-> FALSE, FromPort |-> awsInt64(1), ToPort |-> awsInt64(2)],
    [nil |-> FALSE, FromPort |-> NilInt64, ToPort |-> awsInt64(2)] }

PAddresses ==
  { NilPtr,
    [nil |-> FALSE, AddressDefinition |-> awsString("a")],
    [nil |-> FALSE, AddressDefinition |-> NilString] }

PProtocols == {NilInt64, awsInt64(6), awsInt64(17)}

PBaseScope ==
  [nil |-> FALSE, Protocols |-> NilSlice, DestinationPorts |-> NilSlice,
   Destinations |-> NilSlice, SourcePorts |-> NilSlice, Sources |-> NilSlice]

PScopes ==
  {[PBaseScope EXCEPT !.Protocols = l] : l \in Slices(PProtocols)}
  \cup {[PBaseScope EXCEPT !.DestinationPorts = l] : l \in Slices(PPortRanges)}
  \cup {[PBaseScope EXCEPT !.SourcePorts = l] : l \in Slices(PPortRanges)}
  \cup {[PBaseScope EXCEPT !.Destinations = l] : l \in Slices(PAddresses)}
  \cup {[PBaseScope EXCEPT !.Sources = l] : l \in Slices(PAddresses)}

PScopeSlices ==
  Slices({NilPtr, [PBaseScope EXCEPT !.Protocols = Slice(<<awsInt64(6)>>)]})
  \cup {Slice(<<sc>>) : sc \in PScopes}

PChecks ==
  {NilPtr}
  \cup {[nil |-> FALSE, RevokedStatusAction |-> r, UnknownStatusAction |-> u] :
          r \in {NilString, awsString("PASS")}, u \in {NilString, awsString("PASS")}}

PServerCerts ==
  { NilPtr,
    [nil |-> FALSE, ResourceArn |-> awsString("a")],
    [nil |-> FALSE, ResourceArn |-> NilString] }

PBaseSCC ==
  [nil |-> FALSE, CertificateAuthorityArn |-> NilString,
   CheckCertificateRevocationStatus |-> NilPtr, Scopes |-> NilSlice,
   ServerCertificates |-> NilSlice]

PSCCs ==
  {[PBaseSCC EXCEPT !.CertificateAuthorityArn = a] : a \in {NilString, awsString("ca")}}
  \cup {[PBaseSCC EXCEPT !.CheckCertificateRevocationStatus = c] : c \in PChecks}
  \cup {[PBaseSCC EXCEPT !.Scopes = l] : l \in PScopeSlices}
  \cup {[PBaseSCC EXCEPT !.ServerCertificates = l] : l \in Slices(PServerCerts)}

PSCCSlices ==
  Slices({[PBaseSCC EXCEPT !.CertificateAuthorityArn = awsString("ca")]})
  \cup {Slice(<<c>>) : c \in PSCCs}

Payloads ==
  {NilPtr} \cup {[nil |-> FALSE, ServerCertificateConfigurations |-> l] : l \in PSCCSlices}

\* Encryption configurations as the remote service may return them.
PEncryptions ==
  {NilPtr}
  \cup {[nil |-> FALSE, KeyId |-> k, Type |-> t] :
          k \in {NilString, awsString("key")},
          t \in {NilString, awsString("CUSTOMER_KMS")}}

\* Declared definition blocks of a service action, and definition maps the
\* remote service may return with the definition type.
SADefinitions ==
  {[nil |-> FALSE, assume_role |-> a, name |-> "doc", parameters |-> p, version |-> "1",
    type |-> "SSM_AUTOMATION"] : a \in {"", "role"}, p \in {"", "{}"}}

SAPayloads ==
  {[api |-> NilPtr, definitionType |-> "SSM_AUTOMATION"]}
  \cup {[api |-> [nil |-> FALSE, AssumeRole |-> a, Name |-> KeyVal("doc"),
                  Parameters |-> p, Version |-> KeyVal("1")],
         definitionType |-> t] :
          a \in {KeyAbsent, KeyNil, KeyVal("role")},
          p \in {KeyAbsent, KeyNil, KeyVal("{}")},
          t \in {"", "SSM_AUTOMATION"}}

\* ---- the mapper as a state machine ----------------------------------------
\* ------------------------------------------------------------------------
\* The status prober
\* ------------------------------------------------------------------------
\* Answers of DescribeTLSInspectionConfiguration: an output whose response
\* carries a status (or none), ResourceNotFoundException, any other error,
\* or an output without a response.
DescribeAnswers ==
  {[kind |-> "found", status |-> st] : st \in {awsString(x) : x \in Statuses} \cup {NilString}}
  \cup {[kind |-> k, status |-> NilString] :
          k \in {"ResourceNotFoundException", "error", "empty"}}

\* findTLSInspectionConfigurationByNameAndARN (lines 635-657) on answer a of
\* its one DescribeTLSInspectionConfiguration call.
findTLSInspectionConfigurationByNameAndARN(a) ==
  CASE a.kind = "ResourceNotFoundException" -> [out |-> NilPtr, err |-> "NotFoundError"]
    [] a.kind = "error" -> [out |-> NilPtr, err |-> "error"]
    [] a.kind = "empty" -> [out |-> NilPtr, err |-> "EmptyResultError"]
    [] OTHER -> [out |-> a, err |-> "none"]

\* tfresource.NotFound: true of a retry.NotFoundError and of the empty
\* result error, which presents itself as one.
NotFound(err) == err \in {"NotFoundError", "EmptyResultError"}

\* Variant: a not-found passed on as the error it arrived as.
statusTLSInspectionConfiguration_Raise(a) ==
  LET r == findTLSInspectionConfigurationByNameAndARN(a) IN
  IF r.err # "none" THEN [out |-> NilPtr, status |-> "", err |-> r.err]
  ELSE [out |-> r.out, status |-> (IF r.out.status.nil THEN "" ELSE r.out.status.v),
        err |-> "none"]

\* The refresh function statusTLSInspectionConfiguration returns (lines
\* 620-633), on answer a of the remote read.
statusTLSInspectionConfiguration(a) ==
  LET r == findTLSInspectionConfigurationByNameAndARN(a) IN
  IF NotFound(r.err) THEN [out |-> NilPtr, status |-> "", err |-> "none"]
  ELSE IF r.err # "none" THEN [out |-> NilPtr, status |-> "", err |-> r.err]
  ELSE [out |-> r.out, status |-> (IF r.out.status.nil THEN "" ELSE r.out.status.v),
        err |-> "none"]

MapInit ==
  /\ LifeInit
  /\ ConcIdle
  /\ res = "tls"
  /\ mOut = ListNull
  /\ \/ mpc = "tree" /\ mTree \in Trees /\ mPayload = NilPtr
     \/ mpc = "payload" /\ mTree = ListNull /\ mPayload \in Payloads
     \/ mpc = "sa_tree" /\ mTree \in SADefinitions /\ mPayload = NilPtr
     \/ mpc = "sa_payload" /\ mTree = ListNull /\ mPayload \in SAPayloads
     \/ mpc = "answer" /\ mTree = ListNull /\ mPayload \in DescribeAnswers
     \/ mpc = "enc_payload" /\ mTree = ListNull /\ mPayload \in PEncryptions
     \/ mpc = "bad_tree" /\ mTree \in BadTrees /\ mPayload = NilPtr

\* expand of the declared nested definition
MapExpand ==
  /\ mpc = "tree"
  /\ mPayload' = ExpandDeclared(mTree)
  /\ mpc' = "expanded"
  /\ UNCHANGED <<mTree, mOut>>
  /\ UNCHANGED <<lifeVars, concVars>>

\* flatten of a payload: the one expand produced, or one the remote service returned
MapFlatten ==
  /\ mpc \in {"expanded", "payload"}
  /\ mOut' = flattenTLSInspectionConfiguration(mPayload)
  /\ mpc' = IF mpc = "expanded" THEN "roundtrip" ELSE "flattened"
  /\ UNCHANGED <<mTree, mPayload>>
  /\ UNCHANGED <<lifeVars, concVars>>

\* expand of a service action definition (Create line 104, Update line 197);
\* the definition type travels beside the map (line 105)
MapSAExpand ==
  /\ mpc = "sa_tree"
  /\ mPayload' = [api |-> expandServiceActionDefinition(mTree), definitionType |-> mTree.type]
  /\ mpc' = "sa_expanded"
  /\ UNCHANGED <<mTree, mOut>>
  /\ UNCHANGED <<lifeVars, concVars>>

\* flatten of a service action definition (Read line 176)
MapSAFlatten ==
  /\ mpc \in {"sa_expanded", "sa_payload"}
  /\ mOut' = flattenServiceActionDefinition(mPayload.api, mPayload.definitionType)
  /\ mpc' = IF mpc = "sa_expanded" THEN "sa_roundtrip" ELSE "sa_flattened"
  /\ UNCHANGED <<mTree, mPayload>>
  /\ UNCHANGED <<lifeVars, concVars>>

\* one probe of the poll loop on an answer of the remote read
MapProbe ==
  /\ mpc = "answer"
  /\ mOut' = statusTLSInspectionConfiguration(mPayload)
  /\ mpc' = "probed"
  /\ UNCHANGED <<mTree, mPayload>>
  /\ UNCHANGED <<lifeVars, concVars>>

\* flatten of the encryption configuration of a describe output (Read line 403)
MapFlattenEncryption ==
  /\ mpc = "enc_payload"
  /\ mOut' = flattenTLSEncryptionConfiguration(mPayload)
  /\ mpc' = "enc_flattened"
  /\ UNCHANGED <<mTree, mPayload>>
  /\ UNCHANGED <<lifeVars, concVars>>

\* expand of a declared definition with a nested list that cannot be
\* converted (Create line 294, Update line 465): the handler keeps the payload
\* and whatever diagnostics the call handed back
MapExpandMalformed ==
  /\ mpc = "bad_tree"
  /\ mPayload' = ExpandReturned(mTree).payload
  /\ mOut' = ExpandReturned(mTree).diags
  /\ mpc' = "bad_expanded"
  /\ UNCHANGED mTree
  /\ UNCHANGED <<lifeVars, concVars>>

MapNext ==
  \/ MapExpandMalformed
  \/ MapFlattenEncryption
  \/ MapExpand
  \/ MapFlatten
  \/ MapSAExpand
  \/ MapSAFlatten
  \/ MapProbe

MapSpec == MapInit /\ [][MapNext]_vars

\* ------------------------------------------------------------------------
\* Two invocations for different resources, side by side
\* ------------------------------------------------------------------------
\* The remote service numbers the objects it holds; the ARN of the object
\* named k carries its number.
ResourceNumber(k) == IF k = "cfg1" THEN 1 ELSE 2

ResourceNamed(n) == CHOOSE k \in Invocations : ResourceNumber(k) = n

ResourceArn(k) == ArnOf(ResourceNumber(k))

\* The recorded state a Delete or Read of resource k starts from.
RecordedState(k) ==
  [NoState EXCEPT !.present = TRUE, !.name = k, !.arn = ResourceArn(k), !.id = ResourceArn(k),
                  !.updateToken = 1, !.status = ResourceStatusActive]

\* An invocation of intent i for resource k, before its first remote call.
Started(i, k) ==
  CASE i = "create" ->
         [NoInvocation EXCEPT !.intent = i, !.pc = "create_call", !.outcome = "running",
                              !.plan = [NoState EXCEPT !.name = k]]
    [] i = "delete" ->
         [NoInvocation EXCEPT !.intent = i, !.pc = "delete_call", !.outcome = "running",
                              !.plan = RecordedState(k), !.state = RecordedState(k)]
    [] OTHER ->
         [NoInvocation EXCEPT !.intent = i, !.pc = "read_call", !.outcome = "running",
                              !.plan = RecordedState(k), !.state = RecordedState(k)]

\* Intents of the two invocations.  At most one of them is a Create, whose
\* poll is the long one.
ConcRuns ==
  {f \in [Invocations -> {"create", "delete", "read"}] :
     \A j, k \in Invocations : (f[j] = "create" /\ f[k] = "create") => j = k}

ConcInit ==
  /\ LifeInit
  /\ res = "tls"
  /\ mpc = "idle"
  /\ mTree = [null |-> TRUE, elems |-> <<>>]
  /\ mPayload = [nil |-> TRUE]
  /\ mOut = [null |-> TRUE, elems |-> <<>>]
  /\ \E f \in ConcRuns : inv = [k \in Invocations |-> Started(f[k], k)]
  /\ alone = inv
  /\ attrTypes = AttrTypeTables

\* Variant: every request addresses one and the same resource.
RequestKey_Shared(iv) == CHOOSE k \in Invocations : TRUE

\* The resource a remote request of invocation iv addresses: the create call
\* by plan.Name (line 278); the read after create and the create poll by
\* plan.ARN (lines 328, 340); Read by state.ID (line 376); the delete call and
\* the delete poll by state.ARN (lines 524, 539).
RequestKey(iv) ==
  CASE iv.pc = "create_call" -> iv.plan.name
    [] iv.pc \in {"create_read", "create_poll"} -> ResourceNamed(iv.plan.arn.n)
    [] iv.pc = "read_call" -> ResourceNamed(iv.state.id.n)
    [] OTHER -> ResourceNamed(iv.state.arn.n)

\* What the remote service can answer to the request an invocation is about
\* to send.
RemoteAnswers(iv) ==
  CASE iv.pc = "create_call" -> {"ok", "error", "empty"}
    [] iv.pc = "delete_call" -> {"ok", "notfound", "error"}
    [] OTHER -> ProbeOutcomes

\* The handler returns with outcome o.
Returned(iv, o) == [iv EXCEPT !.pc = "done", !.outcome = o]

\* One round of a wait (lines 568-618) inside a handler; st is the state
\* the handler records once the wait has succeeded.
WaitStep(conf, iv, a, st) ==
  IF Expired(conf, iv.poll) THEN Returned(iv, "failed_timeout")
  ELSE
    LET s == RefreshStep(conf, iv.poll, a) IN
    CASE s.res = "continue" -> [iv EXCEPT !.poll = s.p]
      [] s.res = "done" -> [Returned(iv, "converged") EXCEPT !.poll = s.p, !.state = st]
      [] OTHER -> [Returned(iv, "failed_" \o s.res) EXCEPT !.poll = s.p]

\* One step of a handler: it sends the request it is at to the remote
\* service, which answers a about resource k, and works on its own locals.
\* tables are the attr type tables flatten reads (lines 683-991).
HandlerStep(iv, a, k, tables) ==
  CASE iv.pc = "create_call" ->
         IF a = "ok"
         THEN [iv EXCEPT !.pc = "create_read", !.plan.arn = ResourceArn(k), !.plan.id = ResourceArn(k),
                         !.plan.updateToken = 1]
         ELSE Returned(iv, "failed_call")
    [] iv.pc = "create_read" ->
         IF a \in Statuses
         THEN [iv EXCEPT !.pc = "create_poll", !.plan.status = a]
         ELSE Returned(iv, "crashed")
    [] iv.pc = "create_poll" ->
         WaitStep(WaitCreatedConf, iv, a, [iv.plan EXCEPT !.present = TRUE])
    [] iv.pc = "read_call" ->
         CASE a = "gone" -> [Returned(iv, "removed") EXCEPT !.state = NoState]
           [] a = "error" -> Returned(iv, "failed_call")
           [] OTHER -> [Returned(iv, "converged") EXCEPT
                          !.state = [iv.state EXCEPT !.arn = ResourceArn(k), !.id = ResourceArn(k),
                                                     !.name = k, !.status = a],
                          !.elemTypes = tables]
    [] iv.pc = "delete_call" ->
         CASE TLSDeleteCallResult(a) = "poll" -> [iv EXCEPT !.pc = "delete_poll"]
           [] TLSDeleteCallResult(a) = "converged" ->
                [Returned(iv, "converged") EXCEPT !.state = NoState]
           [] OTHER -> Returned(iv, "failed_call")
    [] OTHER ->
         WaitStep(WaitDeletedConf, iv, a, NoState)

\* Invocation k takes its step at position p.  The remote service holds an
\* answer for each resource; the invocation gets the one of the resource
\* its request addresses, and alone[k] is stepped with the answer about k.
ConcStep(k, p) ==
  /\ inv[k].pc = p
  /\ \E ans \in [Invocations -> RemoteAnswers(inv[k])] :
       /\ inv' = [inv EXCEPT ![k] = HandlerStep(@, ans[RequestKey(@)], RequestKey(@),
                                                attrTypes)]
       /\ alone' = [alone EXCEPT ![k] = HandlerStep(@, ans[k], k, AttrTypeTables)]
  /\ UNCHANGED attrTypes
  /\ UNCHANGED <<lifeVars, mapVars>>

ConcCreateCall == \E k \in Invocations : ConcStep(k, "create_call")

ConcCreateRead == \E k \in Invocations : ConcStep(k, "create_read")

ConcCreatePoll == \E k \in Invocations : ConcStep(k, "create_poll")

ConcRead == \E k \in Invocations : ConcStep(k, "read_call")

ConcDeleteCall == \E k \in Invocations : ConcStep(k, "delete_call")

ConcDeletePoll == \E k \in Invocations : ConcStep(k, "delete_poll")

ConcNext ==
  \/ ConcCreateCall
  \/ ConcCreateRead
  \/ ConcCreatePoll
  \/ ConcRead
  \/ ConcDeleteCall
  \/ ConcDeletePoll

ConcSpec == ConcInit /\ [][ConcNext]_vars

\* ========================================================================
\* Properties
\* ========================================================================
Idle(r, i) == res = r /\ pc = "idle" /\ intent = i

FailedPoll == {"failed_timeout", "failed_error", "failed_notfound", "failed_unexpected"}

Deadline(i) ==
  CASE i = "create" -> CreateTimeout
    [] i = "update" -> UpdateTimeout
    [] i = "delete" -> DeleteTimeout
    [] OTHER -> 0

\* C1: the id recorded in state always equals the ARN the create call
\* assigned; no Update or Read changes it.  (Update stores the output's
\* TLSInspectionConfigurationId instead: the property is violated.)
C1_IdIsCreatedArn ==
  (res = "tls" /\ state.present) => state.id = ArnOf(remote.created)

C3_IdempotentDelete ==
  (intent = "delete" /\ ghost.callAnswer = "notfound") =>
     /\ pc = "idle" /\ outcome = "converged"
     /\ ghost.probes = 0
     /\ ~state.present /\ ~saState.present

C3_Witness ==
  /\ Idle("sa", "delete") /\ ghost.callAnswer = "notfound"
  /\ ghost.finals = 1 /\ outcome = "converged"

C6_NoTargetMeansTimeout ==
  (res = "tls" /\ pc = "idle" /\ intent \in {"create", "update", "delete"}
     /\ ghost.probes > 0 /\ ghost.firstTargetAt = 0 /\ outcome # "failed_error")
    => outcome = "failed_timeout"

\* C6 amended: a poll whose prober never reports the target status never
\* converges; it fails by timeout exactly at the deadline when every probe
\* was tolerated, and earlier on a probe error, an unexpected status or too
\* many not-found probes.  No probe is issued past the deadline, and a
\* timeout failure is returned with exactly the probes issued before it.
C6_TimeoutAtDeadline ==
  /\ (res = "tls" /\ pc = "idle" /\ intent \in {"create", "update", "delete"}
        /\ ghost.probes > 0 /\ ghost.firstTargetAt = 0) => outcome \in FailedPoll
  /\ (res = "tls" /\ intent \in {"create", "update", "delete"}) =>
        /\ ghost.probes <= Deadline(intent)
        /\ poll.elapsed <= Deadline(intent)
        /\ outcome = "failed_timeout" =>
             (pc = "idle" /\ poll.elapsed = Deadline(intent)
                /\ ghost.probes = Deadline(intent))

C6_Witness ==
  /\ Idle("tls", "update") /\ outcome = "failed_timeout"
  /\ ghost.firstTargetAt = 0 /\ ghost.probes = UpdateTimeout

\* C7: after a failed invocation the recorded identity and update token are
\* the ones the remote service holds: after an Update whose call succeeded
\* and whose poll failed the recorded token is the one that call returned,
\* and after a Create whose call succeeded and whose poll failed the created
\* identity is recorded.  (Both handlers return without writing state: the
\* property is violated.)
C7_ReinvokeSafe ==
  (res = "tls" /\ pc = "idle" /\ outcome \in FailedPoll) =>
     /\ (intent = "update" => state.updateToken = remote.token)
     /\ (intent = "create" => (state.present /\ state.id = ghost.createdArn))

\* C8: the tree a converged Create returns carries the declared name, a null
\* description when none was declared, and the target status.  (The status
\* is the one read before polling began: the property is violated.)
C8_CreateResult ==
  (Idle("tls", "create") /\ outcome = "converged") =>
     /\ state.name = "cfg1"
     /\ (plan.description = Null => state.description = Null)
     /\ state.status = ResourceStatusActive

\* The definition block as resource data holds it after d.Set (Read line
\* 176): a key the flattened map leaves out reads as the empty string.
StoredDefinition(tfMap) ==
  IF tfMap.nil THEN tfMap
  ELSE [nil |-> FALSE,
        assume_role |-> tfMap.assume_role.v, name |-> tfMap.name.v,
        parameters |-> tfMap.parameters.v, version |-> tfMap.version.v,
        type |-> tfMap.type.v]

\* C9: for every valid configuration tree t of the nested definition, null
\* optional scalars and known-but-empty nested lists included,
\* flatten(expand(t)) is tree-equal to t.
C9_RoundTrip ==
  /\ mpc = "roundtrip" => mOut = mTree
  /\ mpc = "sa_roundtrip" => StoredDefinition(mOut) = mTree

\* A payload with every empty list replaced by an absent (nil) one.
NilifySlice(sl) == IF Len(sl.elems) = 0 THEN NilSlice ELSE sl

NilifyScope(sc) ==
  IF sc.nil THEN sc
  ELSE [nil |-> FALSE,
        Protocols |-> NilifySlice(sc.Protocols),
        DestinationPorts |-> NilifySlice(sc.DestinationPorts),
        Destinations |-> NilifySlice(sc.Destinations),
        SourcePorts |-> NilifySlice(sc.SourcePorts),
        Sources |-> NilifySlice(sc.Sources)]

NilifyScopes(sl) ==
  NilifySlice([nil |-> sl.nil, elems |-> [i \in 1..Len(sl.elems) |-> NilifyScope(sl.elems[i])]])

NilifyConfiguration(c) ==
  [nil |-> FALSE,
   CertificateAuthorityArn |-> c.CertificateAuthorityArn,
   CheckCertificateRevocationStatus |-> c.CheckCertificateRevocationStatus,
   Scopes |-> NilifyScopes(c.Scopes),
   ServerCertificates |-> NilifySlice(c.ServerCertificates)]

NilifyPayload(ptr) ==
  IF ptr.nil THEN ptr
  ELSE [nil |-> FALSE,
        ServerCertificateConfigurations |->
          LET sl == ptr.ServerCertificateConfigurations IN
          NilifySlice([nil |-> sl.nil,
                       elems |-> [i \in 1..Len(sl.elems) |-> NilifyConfiguration(sl.elems[i])]])]

\* C10: for every nested list field of the payload, flattening a payload in
\* which the list is empty and flattening one in which it is absent (nil)
\* produce the same result, a null list.
C10_EmptyAsAbsent ==
  mpc = "flattened" => mOut = flattenTLSInspectionConfiguration(NilifyPayload(mPayload))

\* A declared scalar and the payload pointer it expanded to carry the same value.
SameString(v, ptr) == ~ptr.nil /\ ptr.v = v.v

\* A declared list and the payload slice it expanded to: same length, and
\* the i-th payload element holds what the i-th declared element declares
\* (Holds(e, x): payload element x carries the content of declared element e).
InOrder(l, sl, Holds(_, _)) ==
  /\ Len(sl.elems) = Len(l.elems)
  /\ \A i \in 1..Len(l.elems) : Holds(l.elems[i], sl.elems[i])

PortHolds(e, x) == x.FromPort.v = e.from_port.v /\ x.ToPort.v = e.to_port.v

AddressHolds(e, x) == SameString(e.address_definition, x.AddressDefinition)

ProtocolHolds(e, x) == x.v = e.v

CertificateHolds(e, x) == SameString(e.resource_arn, x.ResourceArn)

ScopeHolds(e, x) ==
  /\ InOrder(e.protocols, x.Protocols, ProtocolHolds)
  /\ InOrder(e.destination_ports, x.DestinationPorts, PortHolds)
  /\ InOrder(e.source_ports, x.SourcePorts, PortHolds)
  /\ InOrder(e.destinations, x.Destinations, AddressHolds)
  /\ InOrder(e.sources, x.Sources, AddressHolds)

ConfigurationHolds(e, x) ==
  /\ x.CertificateAuthorityArn.nil = e.certificate_authority_arn.null
  /\ x.CertificateAuthorityArn.v = e.certificate_authority_arn.v
  /\ InOrder(e.scopes, x.Scopes, ScopeHolds)
  /\ InOrder(e.server_certificates, x.ServerCertificates, CertificateHolds)

\* C11: for every nested list of the declared tree, expand produces a payload
\* list of the same length whose i-th element is the expansion of the i-th
\* declared element; element order is never permuted.
C11_OrderPreserved ==
  (mpc = "expanded" /\ Len(mTree.elems) > 0) =>
     InOrder(mTree.elems[1].server_certificate_configurations,
             mPayload.ServerCertificateConfigurations, ConfigurationHolds)

C11_Witness ==
  /\ mpc = "expanded" /\ Len(mTree.elems) > 0
  /\ LET l == mTree.elems[1].server_certificate_configurations IN
     /\ Len(l.elems) = 2 /\ l.elems[1] # l.elems[2]
     /\ Len(mPayload.ServerCertificateConfigurations.elems) = 2
     /\ ~mPayload.ServerCertificateConfigurations.elems[1].CertificateAuthorityArn.nil
     /\ mPayload.ServerCertificateConfigurations.elems[2].CertificateAuthorityArn.nil

\* C13 as stated: every Create invocation, of either resource type, sends its
\* create call with an idempotency token, the same on every attempt.
C13_EveryCreateCarriesToken ==
  (intent = "create" /\ ghost.calls > 0) =>
     /\ plan.idempotencyToken # 0
     /\ ghost.sentTokens \subseteq {plan.idempotencyToken}

\* C13 amended: a service action Create carries one idempotency token,
\* generated once, on every attempt of its create call, the attempt after a
\* retry timeout included, so a remote service deduplicating by token creates
\* at most one object for the invocation.  A TLS inspection configuration
\* Create sends its create call without an idempotency token and never
\* re-attempts it.
C13_OneTokenPerInvocation ==
  /\ (res = "sa" /\ intent = "create") =>
        /\ plan.idempotencyToken # 0
        /\ ghost.sentTokens \subseteq {plan.idempotencyToken}
        /\ (ghost.attempts + ghost.finals > 0 => ghost.sentTokens # {})
        /\ ghost.objects <= 1
  /\ (res = "tls" /\ intent = "create") =>
        /\ plan.idempotencyToken = 0 /\ ghost.sentTokens = {}
        /\ ghost.attempts = 0 /\ ghost.finals = 0

C13_Witness ==
  /\ Idle("sa", "create") /\ outcome = "converged"
  /\ ghost.attempts = 1 /\ ghost.finals = 1
  /\ ghost.deduped /\ ghost.objects = 1
  /\ ghost.sentTokens = {plan.idempotencyToken}

\* C14: when the retry loop around the mutating call of a service action is
\* exhausted by its timeout, exactly one further attempt of the call is made,
\* whatever the earlier attempts answered, and its answer is the answer of
\* the mutating phase.  (The further attempt is made only when no attempt of
\* the loop ever answered: the property is violated.)
C14_OneFinalAttempt ==
  (res = "sa" /\ pc \in {"idle", "sa_delete_poll"} /\ ghost.exhausted) =>
     ghost.finals = 1

\* C15: the retry loop around the mutating call of a service action attempts
\* the call again only after an error that matches the transient signature
\* of its intent ("profile does not exist" for create and update,
\* ResourceInUseException for delete); any other error ends the mutating
\* phase at once, with that error and without another attempt of the call.
C15_RetryOnlyTransient ==
  (res = "sa" /\ intent \in {"create", "update", "delete"}) =>
     /\ intent \in {"create", "update"} => ghost.retried \subseteq {"profile does not exist"}
     /\ intent = "delete" => ghost.retried \subseteq {"ResourceInUseException"}
     /\ ghost.callAnswer = "other" => (pc = "idle" /\ outcome = "failed_call")

C15_Witness ==
  /\ Idle("sa", "delete") /\ outcome = "failed_call"
  /\ ghost.retried = {"ResourceInUseException"}
  /\ ghost.callAnswer = "other" /\ ghost.attempts = 2 /\ ghost.finals = 0

\* C16: when the poll of a Create or Update fails after the mutating call
\* succeeded, the invocation ends there: the failing probe is its last
\* remote call, no update call follows, and what the remote service holds
\* (the created object, the applied update and its token) is left as it is.
C16_NoRollback ==
  [][(pc \in {"create_poll", "update_poll"} /\ outcome' \in FailedPoll) =>
       /\ pc' = "idle"
       /\ remote' = remote
       /\ ghost'.calls <= ghost.calls + 1
       /\ ghost'.updateCalls = ghost.updateCalls]_vars

C16_Witness ==
  /\ Idle("tls", "update") /\ outcome \in {"failed_timeout", "failed_error"}
  /\ ghost.updateCalls = 1 /\ ghost.probes >= 1
  /\ remote.token = 2 /\ remote.description = "d1"

IntentOf(action) ==
  CASE action \in {"creating", "waiting for creation"} -> "create"
    [] action \in {"updating", "waiting for update"} -> "update"
    [] action \in {"deleting", "waiting for deletion", "waiting for delete"} -> "delete"
    [] OTHER -> "none"

PhaseOf(action) ==
  CASE action \in {"creating", "updating", "deleting"} -> "call"
    [] action \in {"waiting for creation", "waiting for update", "waiting for deletion",
                   "waiting for delete"} -> "poll"
    [] OTHER -> "none"

\* C18: every fatal error of a Create, Update or Delete names the resource
\* identity, the intent and the failing phase (mutating call or poll), and
\* the error of a failed create poll names the identity the create call
\* assigned.
C18_ErrorsAnnotated ==
  (pc = "idle" /\ intent \in {"create", "update", "delete"}
     /\ outcome \in FailedPoll \cup {"failed_call"}) =>
    LET e == ErrorMessage(res, intent, outcome, plan, state, saState) IN
    /\ e.id # NoId
    /\ IntentOf(e.action) = intent
    /\ PhaseOf(e.action) = (IF outcome = "failed_call" THEN "call" ELSE "poll")
    /\ (intent = "create" /\ outcome \in FailedPoll) => e.id = ghost.createdArn

C20_ConvergedOrFailed ==
  (pc = "idle" /\ intent \in {"create", "update", "delete"}) =>
     /\ outcome \in {"converged", "removed"} \cup FailedPoll
                    \cup {"failed_call", "failed_read", "failed_mapping"}
     /\ outcome = "failed_call" => ghost.probes = 0

\* The gone sentinel of the prober: no payload, empty status, no error.
Gone == [out |-> NilPtr, status |-> "", err |-> "none"]

C22_ProbeErrorEndsPolling ==
  res = "tls" =>
    /\ ghost.probeErrors <= 1
    /\ ghost.probeErrors = 1 => (pc = "idle" /\ outcome = "failed_error")
    /\ (pc = "idle" /\ outcome = "failed_error") => ghost.probeErrors = 1
    /\ (intent = "create" /\ ghost.probes > 0) => ghost.calls = ghost.probes + 2
    /\ (intent = "update" /\ ghost.probes > 0) => ghost.calls = ghost.probes + ghost.updateCalls
    /\ (intent = "delete" /\ ghost.probes > 0) => ghost.calls = ghost.probes + 1

C22_Witness ==
  Idle("tls", "update") /\ outcome = "failed_error" /\ ghost.probes = 3
    /\ ghost.probeErrors = 1 /\ ghost.updateCalls = 1

\* C23: the update token an update call carries is the one the remote
\* service returned last for the resource, and once an update call has
\* succeeded the token recorded for the next invocation is the one that
\* call returned.  (An Update whose poll fails records nothing, so the
\* recorded token falls behind: the property is violated.)
C23_TokenChain ==
  res = "tls" =>
    /\ (intent = "update" /\ ghost.updateCalls = 1) => ghost.sentToken = ghost.heldToken
    /\ (pc = "idle" /\ intent = "update" /\ state.present) => state.updateToken = remote.token

C25_EmptyChangeSetStillPolls ==
  (res = "tls" /\ intent = "update" /\ ghost.unchanged) =>
    /\ ghost.updateCalls = 0
    /\ pc \in {"update_poll", "idle"}
    /\ pc = "idle" =>
         /\ outcome \in {"converged"} \cup FailedPoll
         /\ ghost.probes >= 1
         /\ ghost.calls = ghost.probes
         /\ outcome = "converged" =>
              /\ ghost.probes >= ContinuousTargetOccurence
              /\ poll.targetOccurence = ContinuousTargetOccurence
              /\ ghost.sincePending = ContinuousTargetOccurence
         /\ outcome = "failed_timeout" => ghost.probes = UpdateTimeout

C25_Witness ==
  /\ Idle("tls", "update") /\ ghost.unchanged /\ outcome = "failed_unexpected"
  /\ ghost.probes = 2 /\ ghost.updateCalls = 0

\* C26: in the create poll the not-found counter is the number of gone
\* probes since the latest probe that found the object (a found object
\* resets it to zero); polling goes on while the counter is within
\* NotFoundChecks, and the invocation fails with not-found exactly when the
\* counter exceeds it.
C26_NotFoundTolerance ==
  (res = "tls" /\ intent = "create") =>
    /\ poll.notfoundTick = ghost.goneRun
    /\ ghost.goneRun <= NotFoundChecks + 1
    /\ pc = "create_poll" => ghost.goneRun <= NotFoundChecks
    /\ outcome = "failed_notfound" <=> (pc = "idle" /\ ghost.goneRun = NotFoundChecks + 1)

C26_Witness ==
  /\ Idle("tls", "create") /\ outcome = "failed_notfound"
  /\ ghost.probes = NotFoundChecks + 3 /\ ghost.firstTargetAt = 2

\* C27 as stated: once a create poll probe has found the object in a status
\* other than the target, polling ends only with the target reached, the
\* deadline passed or a probe error.
C27_EndsByTargetDeadlineError ==
  (Idle("tls", "create") /\ ghost.foundOther) =>
     outcome \in {"converged", "failed_timeout", "failed_error"}

\* The step is a create poll probe that found the object in a status other
\* than the target.
FoundOtherProbe ==
  /\ pc = "create_poll"
  /\ ghost'.probes = ghost.probes + 1
  /\ ghost'.probeErrors = ghost.probeErrors
  /\ ghost'.goneRun = 0
  /\ ghost'.consec = 0

\* C27 amended: a create poll probe that finds the object in a status other
\* than the target never ends polling, whatever the status; after it the
\* poll still ends in one of four ways only: the target reached, the deadline
\* passed, a probe error, or more than NotFoundChecks gone probes in a row.
C27_OtherStatusKeepsPolling ==
  [][/\ FoundOtherProbe => (pc' = "create_poll" /\ outcome' = outcome /\ ghost'.foundOther)
     /\ (pc = "create_poll" /\ pc' = "idle") =>
           outcome' \in {"converged", "failed_timeout", "failed_error", "failed_notfound"}]_vars

C27_Witness ==
  /\ Idle("tls", "create") /\ ghost.foundOther /\ outcome = "converged"
  /\ ghost.probes = 4 /\ ghost.firstTargetAt = 3 /\ plan.status = ResourceStatusDeleting

\* C28: in the delete poll a probe that reports the deleting or the active
\* status keeps polling, the first probe that returns the gone sentinel ends
\* the invocation converged, and a Delete that probed converges on no other
\* probe than a gone one.
C28_DeleteConvergesOnGone ==
  (res = "tls" /\ intent = "delete") =>
    /\ pc = "delete_poll" =>
         /\ ~Expired(WaitDeletedConf, poll) =>
              /\ \A o \in {ResourceStatusDeleting, ResourceStatusActive} :
                   RefreshStep(WaitDeletedConf, poll, o).res = "continue"
              /\ RefreshStep(WaitDeletedConf, poll, "gone").res = "done"
         /\ ghost.goneRun = 0
    /\ ghost.goneRun <= 1
    /\ ghost.goneRun = 1 => (pc = "idle" /\ outcome = "converged" /\ ~state.present)
    /\ (pc = "idle" /\ outcome = "converged" /\ ghost.probes > 0) =>
         (ghost.goneRun = 1 /\ ghost.firstTargetAt = ghost.probes)

C28_Witness ==
  /\ Idle("tls", "delete") /\ outcome = "converged"
  /\ ghost.probes = 3 /\ ghost.firstTargetAt = 3 /\ ghost.goneRun = 1

\* C29: when the read issued right after a successful create call answers
\* not-found or an error, Create does not crash and goes on into the create
\* poll.  (Create dereferences the nil result of that read: the property is
\* violated.)
C29_FailedReadGoesToPoll ==
  (res = "tls" /\ intent = "create" /\ ghost.readStatus \in {"gone", "error"}) =>
     /\ outcome # "crashed"
     /\ pc = "create_poll" \/ ghost.probes >= 1

C31_IdIsLookupKey ==
  (res = "tls" /\ state.present) =>
     /\ state.arn.kind = "arn"
     /\ state.id = state.arn

\* A null list of the declared tree and the payload slice expand put in its
\* place: the slice is nil.
NullListAbsent(l, sl) == l.null => sl.nil

ScopeBlocksAbsent(e, x) ==
  /\ NullListAbsent(e.destination_ports, x.DestinationPorts)
  /\ NullListAbsent(e.destinations, x.Destinations)
  /\ NullListAbsent(e.source_ports, x.SourcePorts)
  /\ NullListAbsent(e.sources, x.Sources)

ConfigurationBlocksAbsent(e, x) ==
  /\ e.check_certificate_revocation_status.null => x.CheckCertificateRevocationStatus.nil
  /\ NullListAbsent(e.scopes, x.Scopes)
  /\ NullListAbsent(e.server_certificates, x.ServerCertificates)
  /\ ~e.scopes.null =>
       \A j \in 1..Len(e.scopes.elems) : ScopeBlocksAbsent(e.scopes.elems[j], x.Scopes.elems[j])

\* C32: every optional block of the declared tree that is null is absent
\* (nil) from the payload expand builds: the nested definition itself, and in
\* each server certificate configuration its revocation status block, its
\* scopes, its server certificates and each scope's port and address lists.
\* No empty or default-valued object stands in for an undeclared block.
C32_NullBlocksAbsent ==
  mpc = "expanded" =>
     /\ mTree.null => mPayload.nil
     /\ Len(mTree.elems) > 0 =>
          LET l == mTree.elems[1].server_certificate_configurations
              sl == mPayload.ServerCertificateConfigurations IN
          /\ NullListAbsent(l, sl)
          /\ \A i \in 1..Len(l.elems) : ConfigurationBlocksAbsent(l.elems[i], sl.elems[i])

\* a declared configuration with server certificates and no scopes, and a
\* declared scope with protocols and no port or address lists
C32_Witness ==
  /\ mpc = "expanded" /\ Len(mTree.elems) > 0
  /\ LET l == mTree.elems[1].server_certificate_configurations
         sl == mPayload.ServerCertificateConfigurations IN
     \E i \in 1..Len(l.elems) :
        /\ l.elems[i].scopes.null /\ l.elems[i].check_certificate_revocation_status.null
        /\ ~l.elems[i].server_certificates.null
        /\ ~sl.elems[i].ServerCertificates.nil
        /\ sl.elems[i].Scopes.nil /\ sl.elems[i].CheckCertificateRevocationStatus.nil

\* A payload scalar and the node flatten made of it.
ScalarFlattened(ptr, node) ==
  /\ node.null = ptr.nil
  /\ ~ptr.nil => node.v = ptr.v

\* A payload list and its node: null when the list is absent, known when it
\* has elements; without nil elements, element i is flattened by Holds.
ListFlattened(sl, node, Holds(_, _)) ==
  /\ sl.nil => node.null
  /\ Len(sl.elems) > 0 => ~node.null
  /\ (Len(sl.elems) > 0 /\ \A i \in 1..Len(sl.elems) : ~sl.elems[i].nil) =>
        /\ Len(node.elems) = Len(sl.elems)
        /\ \A i \in 1..Len(sl.elems) : Holds(sl.elems[i], node.elems[i])

PortFlattened(x, e) ==
  ScalarFlattened(x.FromPort, e.from_port) /\ ScalarFlattened(x.ToPort, e.to_port)

AddressFlattened(x, e) == ScalarFlattened(x.AddressDefinition, e.address_definition)

ProtocolFlattened(x, e) == ~e.null /\ e.v = x.v

CertificateFlattened(x, e) == ScalarFlattened(x.ResourceArn, e.resource_arn)

ScopeFlattened(x, e) ==
  /\ ListFlattened(x.Protocols, e.protocols, ProtocolFlattened)
  /\ ListFlattened(x.DestinationPorts, e.destination_ports, PortFlattened)
  /\ ListFlattened(x.SourcePorts, e.source_ports, PortFlattened)
  /\ ListFlattened(x.Destinations, e.destinations, AddressFlattened)
  /\ ListFlattened(x.Sources, e.sources, AddressFlattened)

CheckFlattened(ptr, node) ==
  /\ node.null = ptr.nil
  /\ ~ptr.nil =>
       /\ Len(node.elems) = 1
       /\ ScalarFlattened(ptr.RevokedStatusAction, node.elems[1].revoked_status_action)
       /\ ScalarFlattened(ptr.UnknownStatusAction, node.elems[1].unknown_status_action)

ConfigurationFlattened(x, e) ==
  /\ ScalarFlattened(x.CertificateAuthorityArn, e.certificate_authority_arn)
  /\ CheckFlattened(x.CheckCertificateRevocationStatus, e.check_certificate_revocation_status)
  /\ ListFlattened(x.Scopes, e.scopes, ScopeFlattened)
  /\ ListFlattened(x.ServerCertificates, e.server_certificates, CertificateFlattened)

\* A key of the definition map of a service action and the key flatten set.
KeyFlattened(k, n) ==
  /\ n.set = (k.present /\ ~k.nil)
  /\ n.set => n.v = k.v

RemainingFieldsBuilt(e, x) ==
  /\ x.CertificateAuthorityArn.nil = e.certificate_authority_arn.null
  /\ x.CertificateAuthorityArn.v = e.certificate_authority_arn.v
  /\ IF IsMalformed(e.server_certificates) THEN x.ServerCertificates.nil
     ELSE InOrder(e.server_certificates, x.ServerCertificates, CertificateHolds)
  /\ IF IsMalformed(e.scopes) THEN x.Scopes.nil
     ELSE Len(x.Scopes.elems) = Len(e.scopes.elems)
  /\ IsMalformed(e.check_certificate_revocation_status) =>
       x.CheckCertificateRevocationStatus.nil

PartialResultBuilt ==
  /\ ~mPayload.nil
  /\ LET l == mTree.elems[1].server_certificate_configurations
         sl == mPayload.ServerCertificateConfigurations IN
     /\ Len(sl.elems) = Len(l.elems)
     /\ \A i \in 1..Len(l.elems) : RemainingFieldsBuilt(l.elems[i], sl.elems[i])

\* C34: when expand meets a nested list it cannot convert, the payload it
\* returns is built from the remaining fields, and the diagnostic it raised
\* reaches the caller together with that payload.  (The payload part holds;
\* the diagnostics stay in a local of the expand function: the property is
\* violated.)
C34_DiagnosticWithPartialResult ==
  mpc = "bad_expanded" => (PartialResultBuilt /\ mOut = ExpandRaised(mTree))

\* the payload part of C34 alone, and that a diagnostic was raised
C34_PartialResultAlone ==
  mpc = "bad_expanded" => (PartialResultBuilt /\ ExpandRaised(mTree) # {})

\* C35: within a Create or Update of the TLS inspection configuration the
\* recorded state is written by one step only, the one that ends a so far
\* unfailed invocation in Converged; every step that ends it in Failed
\* (call error, empty response, mapping error, poll error, unexpected status
\* or poll timeout) leaves the recorded state exactly as it was.
C35_WrittenOnlyOnConverged ==
  [][(res = "tls" /\ intent' \in {"create", "update"}) =>
       /\ state' # state => (outcome = "running" /\ outcome' = "converged")
       /\ outcome' # "converged" => state' = state]_vars

\* an Update whose call changed the remote object and whose poll failed:
\* the recorded state still holds the token of before the call
C35_Witness ==
  /\ Idle("tls", "update") /\ outcome \in FailedPoll
  /\ ghost.updateCalls = 1
  /\ state.present /\ state.updateToken # remote.token

\* C36: a Read that finds the remote object absent removes the resource from
\* recorded state, reports no error and issues no call but its one lookup.
\* For the service action this holds for a resource that already existed
\* (Read, and the read that ends Update); a not-found met by the read that
\* ends Create is reported as an error and the new id stays recorded.
C36_AbsentRemovesWithoutError ==
  /\ (Idle("tls", "read") /\ ghost.readStatus = "gone") =>
        /\ state = NoState /\ outcome = "removed"
        /\ ghost.calls = 1 /\ ghost.updateCalls = 0
        /\ ErrorMessage(res, intent, outcome, plan, state, saState) = NoError
  /\ (Idle("sa", "read") /\ ghost.readStatus = "notfound") =>
        /\ saState = NoSAState /\ outcome = "removed"
        /\ ghost.calls = 1
        /\ ErrorMessage(res, intent, outcome, plan, state, saState) = NoError
  /\ (Idle("sa", "update") /\ ghost.readStatus = "notfound") =>
        /\ saState = NoSAState /\ outcome = "removed"
        /\ ErrorMessage(res, intent, outcome, plan, state, saState) = NoError
  /\ (Idle("sa", "create") /\ ghost.readStatus = "notfound") =>
        /\ outcome = "failed_read"
        /\ saState.present /\ saState.id = ghost.createdArn
        /\ ErrorMessage(res, intent, outcome, plan, state, saState)
             = ProblemStandardMessage("describing", saState.id)
  /\ outcome = "removed" => intent \in {"read", "update"}

\* a create of a service action whose read-back met not-found
C36_Witness ==
  /\ Idle("sa", "create") /\ ghost.readStatus = "notfound"
  /\ outcome = "failed_read" /\ saState.present

\* a read of a TLS inspection configuration that found it gone
C36_WitnessRemoved ==
  Idle("tls", "read") /\ ghost.readStatus = "gone" /\ state = NoState

\* A poll probe that found the object in a status that is neither a pending
\* status of the wait nor its target.
UnlistedProbe == ghost'.probes = ghost.probes + 1 /\ ghost'.unlisted

\* C37: in the update poll and in the delete poll a probe that finds the
\* object in a status neither pending nor target ends the invocation at once
\* as Failed (unexpected status), before the deadline; in the create poll,
\* which lists no pending status, such a probe keeps polling, and no
\* invocation but an Update or a Delete ever fails on an unexpected status.
C37_UnlistedStatusFailsAtOnce ==
  [][/\ (pc \in {"update_poll", "delete_poll"} /\ UnlistedProbe) =>
           /\ pc' = "idle" /\ outcome' = "failed_unexpected"
           /\ poll.elapsed < Deadline(intent)
     /\ (pc = "create_poll" /\ UnlistedProbe) => (pc' = "create_poll" /\ outcome' = outcome)
     /\ (outcome' = "failed_unexpected" /\ outcome # "failed_unexpected") =>
           (pc \in {"update_poll", "delete_poll"} /\ UnlistedProbe)]_vars

\* an Update that failed on its first probe, which found the deleting status
C37_Witness ==
  /\ Idle("tls", "update") /\ outcome = "failed_unexpected"
  /\ ghost.unlisted /\ ghost.probes = 1 /\ poll.elapsed < UpdateTimeout

\* a Delete that failed on a probe that found the pending status
C37_WitnessDelete ==
  Idle("tls", "delete") /\ outcome = "failed_unexpected" /\ ghost.unlisted

\* a Create that went on polling after such a probe and converged
C37_WitnessCreate ==
  Idle("tls", "create") /\ outcome = "converged" /\ ghost.foundOther

\* Positions of the non-nil elements of a payload list, and the place of
\* position i among them.
Kept(q) == {i \in 1..Len(q) : ~q[i].nil}

Rank(q, i) == Cardinality({j \in Kept(q) : j <= i})

\* A non-empty payload list and its node: a known list with one element per
\* non-nil payload element, in the payload's order.
NilDropped(sl, node, Holds(_, _)) ==
  Len(sl.elems) > 0 =>
     /\ ~node.null
     /\ Len(node.elems) = Cardinality(Kept(sl.elems))
     /\ \A i \in Kept(sl.elems) : Holds(sl.elems[i], node.elems[Rank(sl.elems, i)])

ScopeNilDropped(x, e) ==
  /\ NilDropped(x.Protocols, e.protocols, ProtocolFlattened)
  /\ NilDropped(x.DestinationPorts, e.destination_ports, PortFlattened)
  /\ NilDropped(x.SourcePorts, e.source_ports, PortFlattened)
  /\ NilDropped(x.Destinations, e.destinations, AddressFlattened)
  /\ NilDropped(x.Sources, e.sources, AddressFlattened)

\* C38: every non-empty payload list of scopes, protocols, port ranges,
\* addresses or server certificates flattens to a known list that holds the
\* flattened non-nil elements in their original order and nothing else; a
\* list of nil elements only flattens to a known empty list, not to null.
C38_NilElementsDropped ==
  (mpc = "flattened" /\ ~mPayload.nil) =>
     LET sl == mPayload.ServerCertificateConfigurations
         l == mOut.elems[1].server_certificate_configurations IN
     \A i \in 1..Len(sl.elems) :
        /\ NilDropped(sl.elems[i].Scopes, l.elems[i].scopes, ScopeNilDropped)
        /\ NilDropped(sl.elems[i].ServerCertificates, l.elems[i].server_certificates,
                      CertificateFlattened)

\* server certificates that are all nil, flattened to a known empty list
C38_Witness ==
  /\ mpc = "flattened" /\ ~mPayload.nil
  /\ \E i \in 1..Len(mPayload.ServerCertificateConfigurations.elems) :
       LET x == mPayload.ServerCertificateConfigurations.elems[i].ServerCertificates
           e == mOut.elems[1].server_certificate_configurations.elems[i].server_certificates IN
       /\ Len(x.elems) = 2 /\ Kept(x.elems) = {}
       /\ ~e.null /\ Len(e.elems) = 0

\* protocols with a nil element in front of a value: the value alone is kept
C38_WitnessOrder ==
  /\ mpc = "flattened" /\ ~mPayload.nil
  /\ \E i \in 1..Len(mPayload.ServerCertificateConfigurations.elems) :
       LET x == mPayload.ServerCertificateConfigurations.elems[i].Scopes
           e == mOut.elems[1].server_certificate_configurations.elems[i].scopes IN
       /\ Len(x.elems) = 1 /\ ~x.elems[1].nil
       /\ Len(x.elems[1].Protocols.elems) = 2
       /\ Kept(x.elems[1].Protocols.elems) = {2}
       /\ Len(e.elems[1].protocols.elems) = 1

====
